---- MODULE Spec2Model ----
(***************************************************************************)
(* Conversation-state management of the tsassistant backend                *)
(* (backend/services.py, backend/utils.py, backend/models.py,              *)
(* backend/config.py): the process-wide memory cache, the transcript file  *)
(* and the config file of each conversation, and the handlers that read    *)
(* and write them.                                                         *)
(*                                                                         *)
(* Every handler of services.py runs to completion without yielding        *)
(* (handle_chat calls the synchronous chain.invoke), so one handler is one *)
(* action; generate_conversation_title awaits the completion and is two    *)
(* actions, with a task that is suspended in between.  Texts are sequences *)
(* of one-character strings, temperatures are tenths (7 is 0.7),           *)
(* time.time() is a logical clock.                                         *)
(***************************************************************************)
EXTENDS Integers, Sequences, FiniteSets, TLC

VARIABLES
    memory_cache,   \* services.memory_cache: id -> window (present, messages)
    history,        \* backend/conversations/history/<id>.json
    mtime,          \* os.path.getmtime of that file; 0 while there is none
    cfgdir,         \* backend/conversations/<id>/ exists
    config,         \* backend/conversations/<id>/config.json
    clock,          \* time.time(), advanced by every chat that commits
    last,           \* history variable: the last request and what it returned
    exch,           \* history variable: exchanges persisted since id was fresh
    lost,           \* history variable: a committed turn of id was not persisted
    tasks,          \* the coroutines of the event loop: accepted, suspended, done
    models_cache,   \* services.models_cache["data"]: the catalog ids, or None
    app_settings,   \* backend/settings/app_settings.json
    openrouter_api_key, \* global_app_config.openrouter_api_key, read at start
    ascii_history,  \* backend/asciis/history/<id>.json
    ascii_cfgdir,   \* backend/asciis/<id>/ exists
    ascii_config    \* backend/asciis/<id>/config.json

vars == <<memory_cache, history, mtime, cfgdir, config, clock, last, exch, lost,
          tasks, models_cache, app_settings, openrouter_api_key,
          ascii_history, ascii_cfgdir, ascii_config>>

\* what the handlers of one conversation's state leave alone
env == <<tasks, models_cache, app_settings, openrouter_api_key,
         ascii_history, ascii_cfgdir, ascii_config>>

----------------------------------------------------------------------------
(* Bounds *)

\* chats that reach the commit phase, over all conversations
MaxClock == 2
\* the same, in the configuration specification
MaxConfigClock == 1
\* ChatbotConfig.memory_window_size (k), read from the environment; default 10
memory_window_size == 1
\* extra exchanges beyond the window in the long-transcript specification
ExtraExchanges == 5
\* coroutines the event loop holds at once, in the event-loop specification
MaxTasks == 2
\* chats that reach the commit phase, in the event-loop specification
MaxAsyncClock == 2
\* the same, in the model-catalog specification
MaxModelsClock == 1
\* the same, in the blocking specification
MaxLoopClock == 1
\* the same, in the store specification
MaxStoreClock == 2
\* chats that reach the commit phase, in the listing specification
MaxListClock == 2
\* ticks of the clock in the ASCII specification
MaxAsciiClock == 2
\* the longest message list handed to save_conversation_history in the
\* round-trip specification
MaxLen == 3

(* Program constants *)

TEMP_MIN == 0
TEMP_MAX == 20
DefaultTemperature == 7
\* Python None in a float-typed field
NoTemperature == -1
\* Python None / JSON null in a string-typed field
None == "None"

\* the conversation the clients of the one-conversation specifications use, and
\* the conversations of the store
Ids == {"a"}
Conversations == {"a", "b"}
\* ChatRequest.conversation_id is any string: the name of a UUID followed by
\* ".json", and a word
OtherIds == {"a.json", "notes"}
StoreIds == Conversations \cup OtherIds

\* time.time() counts ticks; int(time.time()) is the whole seconds
TicksPerSecond == 2
Seconds(now) == now \div TicksPerSecond

\* handle_ascii_chat, ascii_memory_key = f"ascii_{conversation_id}"
ascii_memory_key(conversation_id) == "ascii_" \o conversation_id
\* create_ascii_conversation, f"ascii-default-{int(time.time())}"
AsciiDefaultId(now) == "ascii-default-" \o ToString(Seconds(now))

\* the ASCII conversation the clients chat on, and the ASCII conversations of
\* the store: that one and those create_ascii_conversation makes
AsciiConversations == {"b"}
AsciiIds == AsciiConversations \cup { AsciiDefaultId(now) : now \in 0..MaxAsciiClock }
\* ChatRequest.conversation_id is any string: "ascii_" followed by the id of
\* an ASCII conversation
AsciiNamed == { ascii_memory_key(i) : i \in AsciiConversations }
\* the conversation ids of the chat store, and the keys of memory_cache
AllIds == StoreIds \cup AsciiNamed
CacheKeys == AllIds \cup { ascii_memory_key(i) : i \in AsciiIds }
\* the system message handle_ascii_chat uses without a directive, and the
\* title of an ASCII conversation
AsciiSystemMessage == "<ascii art generator>"
AsciiTitle == <<"A", "S", "C", "I", "I", " ", "C", "h", "a", "t">>

Quote == "\""
U1 == <<"h", "i">>
U2 == <<"y", "o">>
R1 == <<"o", "k">>
R2 == <<Quote, "o", "k", Quote>>

Model1 == "openai/gpt-4.1"
Model2 == "anthropic/claude-sonnet-4"
\* the file backend/prompts/system_prompt.txt, present in the deployment
SystemPromptFile == "<system_prompt.txt>"

\* models.FALLBACK_MODELS; the two gemini literals have no comma between them
\* and are one string
FALLBACK_MODELS ==
    { "anthropic/claude-opus-4", "anthropic/claude-sonnet-4",
      "anthropic/claude-3.5-haiku", "openai/gpt-4.1", "openai/gpt-4.1-mini",
      "openai/gpt-4.1-nano", "x-ai/grok-3-mini-beta", "x-ai/grok-3-beta",
      "google/gemini-2.5-pro-previewgoogle/gemini-2.5-flash-preview-05-20",
      "google/gemma-3-12b-it:free" }
\* a model of the OpenRouter catalog that is not in FALLBACK_MODELS, and a
\* name that no list holds
CatalogModel == "meta-llama/llama-4-scout"
UnknownModel == "acme/none"
\* models_cache["data"] is None
NoCatalog == [data |-> FALSE, models |-> {}]
\* SettingsModel.central_model: the values check_central_model lets through
CentralModels == {"claude-3.5-haiku", "claude-3.7-sonnet"}
\* no app_settings.json
NoSettings == [st |-> "absent", central_model |-> None]

\* OPENROUTER_API_KEY as the process finds it: a key, or the empty string
ApiKey == "sk-or"
NoApiKey == ""

EmptyDict == [k \in {} |-> None]
NoFile == [st |-> "absent", data |-> EmptyDict]
NoHistory == [st |-> "absent", msgs |-> <<>>]
NoMemory == [present |-> FALSE, messages |-> <<>>]

\* outcomes of open(path, "w") followed by json.dump: written; open fails and
\* the file is as before; open truncates the file and the dump fails
WriteOutcomes == {"ok", "unchanged", "truncated"}
\* the outcomes of the two writes of one chat (transcript, config): every
\* outcome of the transcript write, the config written
TranscriptWrites == {<<"ok", "ok">>, <<"unchanged", "ok">>, <<"truncated", "ok">>}
\* every outcome of the config write, the transcript written
ConfigWrites == {<<"ok", "ok">>, <<"ok", "unchanged">>, <<"ok", "truncated">>}

----------------------------------------------------------------------------
(* Pure helpers *)

Upd(f, id, v) == [f EXCEPT ![id] = v]

LastN(s, n) == IF Len(s) <= n THEN s ELSE SubSeq(s, Len(s) - n + 1, Len(s))

Min(a, b) == IF a < b THEN a ELSE b
Max(a, b) == IF a > b THEN a ELSE b

\* SettingsService.load_app_settings()["central_model"]
load_app_settings ==
    IF app_settings.st = "ok" THEN app_settings.central_model ELSE "claude-3.5-haiku"

\* model_mapping.get(central_model, "anthropic/claude-3.5-haiku")
get_default_model_from_settings ==
    IF load_app_settings = "claude-3.5-haiku" THEN "anthropic/claude-3.5-haiku"
    ELSE IF load_app_settings = "claude-3.7-sonnet" THEN "anthropic/claude-3.7-sonnet"
    ELSE "anthropic/claude-3.5-haiku"

\* models.get_valid_models
get_valid_models ==
    FALLBACK_MODELS \cup (IF models_cache.data THEN models_cache.models ELSE {})

\* models.validate_model
validate_model(model_name) == model_name = None \/ model_name \in get_valid_models

\* the field validators of ChatRequest and ConversationConfig
check_model(v) == v = None \/ validate_model(v)
check_temp(v) == v = NoTemperature \/ (TEMP_MIN <= v /\ v <= TEMP_MAX)

_clamp_temperature(t) ==
    IF t = NoTemperature THEN DefaultTemperature
    ELSE Max(TEMP_MIN, Min(TEMP_MAX, t))

\* [ok |-> FALSE] when json.load raises
load_conversation_config(file) ==
    IF file.st = "ok" THEN [ok |-> TRUE, cfg |-> file.data]
    ELSE IF file.st = "corrupt" THEN [ok |-> FALSE, cfg |-> EmptyDict]
    ELSE [ok |-> TRUE,
          cfg |-> ("model_name" :> get_default_model_from_settings)
                  @@ ("system_directive" :> None)
                  @@ ("temperature" :> DefaultTemperature)]

\* mutant: the request's value is used only when there is no stored one
ResolveConfig_stored_first(req, file) ==
    LET stored == load_conversation_config(file)
        bad(e) == [ok |-> FALSE, error |-> e, model |-> None,
                   temperature |-> NoTemperature, directive |-> None]
    IN  IF ~stored.ok THEN bad("JSONDecodeError")
        ELSE IF req.model_name = None /\ "model_name" \notin DOMAIN stored.cfg
            THEN bad("KeyError")
        ELSE IF req.temperature = NoTemperature
                /\ "temperature" \notin DOMAIN stored.cfg
            THEN bad("KeyError")
        ELSE [ok |-> TRUE, error |-> "-",
              model |-> IF req.model_name # None THEN req.model_name
                        ELSE stored.cfg["model_name"],
              temperature |-> _clamp_temperature(
                        IF "temperature" \in DOMAIN stored.cfg
                        THEN stored.cfg["temperature"] ELSE req.temperature),
              directive |-> IF req.system_directive # None
                            THEN req.system_directive
                            ELSE IF "system_directive" \in DOMAIN stored.cfg
                                 THEN stored.cfg["system_directive"]
                                 ELSE None]

\* handle_chat, "merge global -> stored -> request": a KeyError or a
\* JSONDecodeError leaves the handler before anything else runs
ResolveConfig(req, file) ==
    LET stored == load_conversation_config(file)
        bad(e) == [ok |-> FALSE, error |-> e, model |-> None,
                   temperature |-> NoTemperature, directive |-> None]
    IN  IF ~stored.ok THEN bad("JSONDecodeError")
        ELSE IF req.model_name = None /\ "model_name" \notin DOMAIN stored.cfg
            THEN bad("KeyError")
        ELSE IF req.temperature = NoTemperature
                /\ "temperature" \notin DOMAIN stored.cfg
            THEN bad("KeyError")
        ELSE [ok |-> TRUE, error |-> "-",
              model |-> IF req.model_name # None THEN req.model_name
                        ELSE stored.cfg["model_name"],
              temperature |-> _clamp_temperature(
                        IF req.temperature # NoTemperature THEN req.temperature
                        ELSE stored.cfg["temperature"]),
              directive |-> IF req.system_directive # None
                            THEN req.system_directive
                            ELSE IF "system_directive" \in DOMAIN stored.cfg
                                 THEN stored.cfg["system_directive"]
                                 ELSE None]

\* the custom directive when truthy, else the system prompt file
SystemMessage(directive) ==
    IF directive # None /\ directive # "" THEN directive ELSE SystemPromptFile

HumanMessage(c) == [cls |-> "HumanMessage", content |-> c]
AIMessage(c) == [cls |-> "AIMessage", content |-> c]

\* mutant: every entry is tagged with the name of its class
Serialize_class_names(messages) ==
    [i \in 1..Len(messages) |->
        [type |-> messages[i].cls, content |-> messages[i].content]]

\* the list comprehension of save_conversation_history
Serialize(messages) ==
    [i \in 1..Len(messages) |->
        [type |-> IF messages[i].cls = "HumanMessage" THEN "human"
                  ELSE IF messages[i].cls = "AIMessage" THEN "ai"
                  ELSE messages[i].cls,
         content |-> messages[i].content]]

\* the loop of load_conversation_history: entries of unknown type are skipped
Reconstruct(entries) ==
    LET known == SelectSeq(entries, LAMBDA e : e.type \in {"human", "ai"})
    IN  [i \in 1..Len(known) |->
            IF known[i].type = "human" THEN HumanMessage(known[i].content)
            ELSE AIMessage(known[i].content)]

\* mutant: the file gets the turns the window replays
save_conversation_history_window(messages, file, w) ==
    IF w = "ok"
    THEN [ok |-> TRUE,
          file |-> [st |-> "ok",
                    msgs |-> LET n == Len(messages)
                                 m == IF n <= 2 * memory_window_size THEN 0
                                      ELSE n - 2 * memory_window_size
                             IN  [i \in 1..(n - m) |->
                                    [type |-> IF messages[i + m].cls = "HumanMessage"
                                              THEN "human" ELSE "ai",
                                     content |-> messages[i + m].content]]]]
    ELSE IF w = "truncated" THEN [ok |-> FALSE, file |-> [st |-> "corrupt", msgs |-> <<>>]]
    ELSE [ok |-> FALSE, file |-> file]

\* returns the path (ok) or None, and the file as it is afterwards
save_conversation_history(messages, file, w) ==
    IF w = "ok" THEN [ok |-> TRUE, file |-> [st |-> "ok", msgs |-> Serialize(messages)]]
    ELSE IF w = "truncated" THEN [ok |-> FALSE, file |-> [st |-> "corrupt", msgs |-> <<>>]]
    ELSE [ok |-> FALSE, file |-> file]

\* mutant: the load keeps only the turns the window replays
load_conversation_history_windowed(messages, file) ==
    IF file.st = "ok"
    THEN [loaded |-> TRUE,
          messages |-> LastN(Reconstruct(file.msgs), 2 * memory_window_size)]
    ELSE [loaded |-> FALSE, messages |-> messages]

\* loaded is the function's result; messages is the memory afterwards
load_conversation_history(messages, file) ==
    IF file.st = "ok" THEN [loaded |-> TRUE, messages |-> Reconstruct(file.msgs)]
    ELSE [loaded |-> FALSE, messages |-> messages]

\* mutant: the JSONDecodeError of a malformed file leaves the function
LoadRaises_corrupt(file) == file.st = "corrupt"

\* load_conversation_history, the except clauses: no error of the read leaves
\* the function
LoadRaises(file) == FALSE

\* mutant: every request takes the branch of a miss
CacheMiss_always(cache, id) == TRUE

\* handle_chat step 1, "if conversation_id not in memory_cache"
CacheMiss(cache, id) == ~cache[id].present

\* handle_chat step 1: a miss constructs a window and loads the transcript
GetOrCreateMemory(cache, file, id) ==
    IF ~CacheMiss(cache, id) THEN cache
    ELSE Upd(cache, id, [present |-> TRUE,
                         messages |-> load_conversation_history(<<>>, file).messages])

\* handle_chat step 2
LastUserMessage(messages) ==
    IF Len(messages) > 0 /\ messages[Len(messages)].role = "user"
    THEN [ok |-> TRUE, content |-> messages[Len(messages)].content]
    ELSE [ok |-> FALSE, content |-> <<>>]

\* mutant: k counts turns, not exchanges
Buffer_turns(messages) ==
    IF memory_window_size > 0 THEN LastN(messages, memory_window_size)
    ELSE <<>>

\* ConversationBufferWindowMemory.load_memory_variables: the last k exchanges
Buffer(messages) ==
    IF memory_window_size > 0 THEN LastN(messages, 2 * memory_window_size)
    ELSE <<>>

\* memory.save_context
SaveContext(messages, human_input, output) ==
    messages \o <<HumanMessage(human_input), AIMessage(output)>>

\* mutant: the except branch swallows the error and the handler goes on
ChainRaises_swallowed(completion) == FALSE

\* handle_chat step 4: the except branch around chain.invoke raises the 500
ChainRaises(completion) == ~completion.ok

\* handle_chat, before the return
StripQuotes(s) ==
    IF Len(s) >= 2 /\ s[1] = Quote /\ s[Len(s)] = Quote
    THEN SubSeq(s, 2, Len(s) - 1) ELSE s

\* mutant: the request's values overwrite the stored ones
_update_conversation_timestamp_request_wins(id, model, directive, temperature, file, now, w) ==
    LET cfg_data == ("conversation_id" :> id) @@ ("model_name" :> model)
                    @@ ("system_directive" :> directive)
                    @@ ("temperature" :> temperature)
        merged == IF file.st = "ok" THEN cfg_data @@ file.data ELSE cfg_data
        stamped == ("last_message_time" :> now) @@ merged
    IN  IF w = "ok" THEN [st |-> "ok", data |-> stamped]
        ELSE IF w = "truncated" THEN [st |-> "corrupt", data |-> EmptyDict]
        ELSE file

\* mutant: a failed write of the timestamp reaches the caller
TimestampRaises_propagated(w) == w # "ok"

\* _update_conversation_timestamp, the outer except: no failure of the write
\* leaves the function
TimestampRaises(w) == FALSE

\* the config file after _update_conversation_timestamp
_update_conversation_timestamp(id, model, directive, temperature, file, now, w) ==
    LET cfg_data == ("conversation_id" :> id) @@ ("model_name" :> model)
                    @@ ("system_directive" :> directive)
                    @@ ("temperature" :> temperature)
        merged == IF file.st = "ok" THEN file.data @@ cfg_data ELSE cfg_data
        stamped == ("last_message_time" :> now) @@ merged
    IN  IF w = "ok" THEN [st |-> "ok", data |-> stamped]
        ELSE IF w = "truncated" THEN [st |-> "corrupt", data |-> EmptyDict]
        ELSE file

----------------------------------------------------------------------------
(* Titles *)

Space == " "
Apostrophe == "'"

\* an id is the name of a UUID: 36 characters, hyphens at 9, 14, 19 and 24
IdText(id) == [i \in 1..36 |-> IF i \in {9, 14, 19, 24} THEN "-" ELSE id]

\* s[:n]
Prefix(s, n) == SubSeq(s, 1, Min(n, Len(s)))

\* s.startswith(p)
StartsWith(s, p) == Len(s) >= Len(p) /\ SubSeq(s, 1, Len(p)) = p

\* s.strip()
RECURSIVE Strip(_)
Strip(s) ==
    IF s = <<>> THEN s
    ELSE IF Head(s) = Space THEN Strip(Tail(s))
    ELSE IF s[Len(s)] = Space THEN Strip(SubSeq(s, 1, Len(s) - 1))
    ELSE s

\* s.replace('"', '').replace("'", "")
RemoveQuotes(s) == SelectSeq(s, LAMBDA c : c \notin {Quote, Apostrophe})

\* s.lower(), for the letters of "Title:"
Lower(s) == [i \in 1..Len(s) |-> IF s[i] = "T" THEN "t" ELSE s[i]]

TitlePrefix == <<"t", "i", "t", "l", "e", ":">>
ErrorTitlePrefix == <<"E", "r", "r", "o", "r", " ", "T", "i", "t", "l", "e">>
Ellipsis == <<".", ".", ".">>

\* f"Chat {conversation_id[:8]}"
FallbackTitle(id) == <<"C", "h", "a", "t", " ">> \o Prefix(IdText(id), 8)

\* utils.generate_chat_title from the return of llm.ainvoke on: response is
\* what ainvoke does (returns a text or raises)
generate_chat_title(id, response) ==
    IF ~response.ok THEN ErrorTitlePrefix \o <<Space>> \o Prefix(IdText(id), 4)
    ELSE LET generated == RemoveQuotes(Strip(response.text))
             unprefixed == IF StartsWith(Lower(generated), TitlePrefix)
                           THEN Strip(SubSeq(generated, Len(TitlePrefix) + 1, Len(generated)))
                           ELSE generated
         IN  IF generated = <<>> THEN FallbackTitle(id)
             ELSE IF Len(unprefixed) > 60 THEN Prefix(unprefixed, 57) \o Ellipsis
             ELSE unprefixed

\* generate_conversation_title, the test of what generate_chat_title returned
NewTitle(id, new_title) ==
    IF new_title = <<>> \/ Strip(new_title) = <<>> \/ StartsWith(new_title, ErrorTitlePrefix)
    THEN FallbackTitle(id) ELSE new_title

\* mutant: the title is written over whatever the file holds
TitleConfigData_blind(id, file) == "id" :> id

\* generate_conversation_title, config_data before the title is put in
TitleConfigData(id, file) == IF file.st = "ok" THEN file.data ELSE "id" :> id

----------------------------------------------------------------------------
(* Requests *)

NoRequest == [messages |-> <<>>, model_name |-> None,
              system_directive |-> None, temperature |-> NoTemperature]

UserTurn(c) == [role |-> "user", content |-> c]
AssistantTurn(c) == [role |-> "assistant", content |-> c]

\* ChatRequest bodies that pass the pydantic validators
PlainRequest == [NoRequest EXCEPT !.messages = <<UserTurn(U1)>>]
LongRequest ==
    [NoRequest EXCEPT !.messages = <<UserTurn(U1), AssistantTurn(R1), UserTurn(U2)>>]
OverrideRequest ==
    [PlainRequest EXCEPT !.model_name = Model1, !.temperature = 15,
                         !.system_directive = "be brief"]
NoUserRequests ==
    { NoRequest,
      [NoRequest EXCEPT !.messages = <<UserTurn(U1), AssistantTurn(R1)>>] }

\* the requests of the transcript specification
ChatRequests == {PlainRequest, LongRequest, OverrideRequest} \cup NoUserRequests

\* the requests of the configuration specification
ConfigChatRequests ==
    { PlainRequest,
      [PlainRequest EXCEPT !.model_name = Model1],
      [PlainRequest EXCEPT !.temperature = 15],
      [PlainRequest EXCEPT !.system_directive = "be brief"],
      [PlainRequest EXCEPT !.system_directive = ""] }

\* a second user text, and bodies the validators reject
PlainRequest2 == [NoRequest EXCEPT !.messages = <<UserTurn(U2)>>]
ModelChatRequests ==
    { PlainRequest,
      [PlainRequest EXCEPT !.model_name = Model1],
      [PlainRequest EXCEPT !.model_name = CatalogModel],
      [PlainRequest EXCEPT !.model_name = UnknownModel],
      [PlainRequest EXCEPT !.temperature = 25] }
ModelConfigInputs ==
    { "model_name" :> Model2, "model_name" :> CatalogModel,
      "model_name" :> UnknownModel, "temperature" :> 25 }
\* what the request to the OpenRouter catalog does: returns the ids, or fails
\* (a status other than 200, a timeout, any other exception)
FetchError == [ok |-> FALSE, models |-> {}]
Fetches ==
    { FetchError,
      [ok |-> TRUE, models |-> {CatalogModel}],
      [ok |-> TRUE, models |-> {CatalogModel, "anthropic/claude-3.7-sonnet"}] }

\* what llm.ainvoke does for a title: returns a text or raises
TitleResponses ==
    { [ok |-> FALSE, text |-> <<>>],
      [ok |-> TRUE, text |-> <<Quote, Quote>>],
      [ok |-> TRUE, text |-> <<Quote, "T", Quote>>] }

\* what chain.invoke does: returns a text or raises
CompletionError == [ok |-> FALSE, text |-> <<>>]
Completions == { CompletionError, [ok |-> TRUE, text |-> R1], [ok |-> TRUE, text |-> R2] }

\* ConversationConfig bodies that pass the validators: the fields the caller
\* set (pydantic's fields_set), conversation_id apart
ConfigInputs ==
    { EmptyDict,
      "model_name" :> Model1,
      "model_name" :> Model2,
      "temperature" :> 9,
      "system_directive" :> "be brief" }

----------------------------------------------------------------------------
(* History variable *)

LastInit ==
    [op |-> "init", id |-> "-", status |-> 0, outcome |-> "-",
     req |-> NoRequest, input |-> EmptyDict,
     resolved |-> FALSE, model |-> None, temperature |-> NoTemperature,
     system_message |-> None,
     miss |-> FALSE, invoked |-> FALSE, completion |-> "-", replay |-> <<>>, u |-> <<>>, raw |-> <<>>, ret |-> <<>>,
     hsave |-> "-", csave |-> "-", messages |-> <<>>,
     after_delete |-> "-",
     title |-> <<>>, resumed |-> FALSE, overlapped |-> FALSE,
     listing |-> <<>>, data |-> EmptyDict,
     expired |-> FALSE, models |-> {}]

\* a fresh record for request op on id; after_delete: what the request before
\* it deleted, when that was a successful delete of the same id
Rec(op, id, status, outcome) ==
    [LastInit EXCEPT !.op = op, !.id = id, !.status = status, !.outcome = outcome,
                     !.after_delete =
                         IF last.op = "delete" /\ last.status = 200 /\ last.id = id
                         THEN last.outcome ELSE "-"]

\* a slot of the event loop
\* first (history): a chat was accepted while its id had no cache entry;
\* overlapped (history): a config-save wrote the file while the title waited
IdleTask == [pc |-> "idle", op |-> "-", id |-> "-", first |-> FALSE,
             overlapped |-> FALSE]
TaskIds == 1..MaxTasks
\* a slot that can take a new coroutine
Free(t) == tasks[t].pc \in {"idle", "done"}

\* the tasks once a config-save has run: a title that waits on an id whose
\* config file the save changed has been overlapped
Overlap(ts) ==
    [t \in TaskIds |->
        IF ts[t].pc = "awaiting" /\ config'[ts[t].id] # config[ts[t].id]
        THEN [ts[t] EXCEPT !.overlapped = TRUE] ELSE ts[t]]
\* the body each client sends
TaskRequest(t) == IF t = 1 THEN PlainRequest ELSE PlainRequest2

----------------------------------------------------------------------------
(* State *)

Init ==
    /\ memory_cache = [i \in CacheKeys |-> NoMemory]
    /\ history = [i \in AllIds |-> NoHistory]
    /\ mtime = [i \in AllIds |-> 0]
    /\ cfgdir = [i \in AllIds |-> FALSE]
    /\ config = [i \in AllIds |-> NoFile]
    /\ clock = 0
    /\ last = LastInit
    /\ exch = [i \in AllIds |-> 0]
    /\ lost = [i \in AllIds |-> FALSE]
    /\ tasks = [t \in TaskIds |-> IdleTask]
    /\ models_cache = NoCatalog
    /\ app_settings = NoSettings
    /\ openrouter_api_key = ApiKey
    /\ ascii_history = [i \in AsciiIds |-> NoHistory]
    /\ ascii_cfgdir = [i \in AsciiIds |-> FALSE]
    /\ ascii_config = [i \in AsciiIds |-> NoFile]

\* ChatService.handle_chat: completion is what chain.invoke does, hw and cw
\* what the writes of the transcript and of the config file do
handle_chat(id, req, completion, hw, cw) ==
    LET r == ResolveConfig(req, config[id])
        cache1 == GetOrCreateMemory(memory_cache, history[id], id)
        memory == cache1[id].messages
        um == LastUserMessage(req.messages)
        sys == SystemMessage(r.directive)
        replay == Buffer(memory)
        memory2 == SaveContext(memory, um.content, completion.text)
        saved == save_conversation_history(memory2, history[id], hw)
        cfg2 == _update_conversation_timestamp(
                    id, r.model, r.directive, r.temperature, config[id], clock + 1, cw)
        base == [Rec("chat", id, 500, r.error) EXCEPT !.req = req]
        res == [base EXCEPT !.resolved = TRUE, !.model = r.model,
                            !.temperature = r.temperature, !.system_message = sys,
                            !.miss = CacheMiss(memory_cache, id)]
        called == [res EXCEPT !.invoked = TRUE, !.replay = replay, !.u = um.content,
                              !.completion = IF completion.ok THEN "returned"
                                             ELSE "raised"]
    IN  IF ~r.ok THEN
            /\ last' = base
            /\ UNCHANGED <<memory_cache, history, mtime, cfgdir, config, clock, exch, lost>>
        ELSE IF CacheMiss(memory_cache, id) /\ LoadRaises(history[id]) THEN
            /\ memory_cache' = Upd(memory_cache, id, [present |-> TRUE, messages |-> <<>>])
            /\ last' = [res EXCEPT !.outcome = "Error loading conversation"]
            /\ UNCHANGED <<history, mtime, cfgdir, config, clock, exch, lost>>
        ELSE IF ~um.ok THEN
            /\ memory_cache' = cache1
            /\ last' = [res EXCEPT !.status = 400, !.outcome = "No user message provided"]
            /\ UNCHANGED <<history, mtime, cfgdir, config, clock, exch, lost>>
        ELSE IF ChainRaises(completion) THEN
            /\ memory_cache' = cache1
            /\ last' = [called EXCEPT !.status = 500, !.outcome = "Error processing chat"]
            /\ UNCHANGED <<history, mtime, cfgdir, config, clock, exch, lost>>
        ELSE
            /\ memory_cache' = Upd(cache1, id, [present |-> TRUE, messages |-> memory2])
            /\ history' = Upd(history, id, saved.file)
            /\ mtime' = IF hw = "unchanged" THEN mtime ELSE Upd(mtime, id, clock + 1)
            /\ cfgdir' = Upd(cfgdir, id, TRUE)
            /\ config' = Upd(config, id, cfg2)
            /\ clock' = clock + 1
            /\ exch' = Upd(exch, id, IF saved.ok THEN exch[id] + 1 ELSE exch[id])
            /\ lost' = Upd(lost, id, lost[id] \/ ~saved.ok)
            /\ last' = IF TimestampRaises(cw)
                       THEN [called EXCEPT !.status = 500,
                                           !.outcome = "Error updating last_message_time",
                                           !.raw = completion.text,
                                           !.hsave = hw, !.csave = cw]
                       ELSE [called EXCEPT !.status = 200, !.outcome = "ok",
                                           !.raw = completion.text,
                                           !.ret = StripQuotes(completion.text),
                                           !.hsave = hw, !.csave = cw]

RoleOf(m) == IF m.cls = "HumanMessage" THEN "user" ELSE "assistant"

\* mutant: the messages are those the window replays
get_conversation_messages_buffer(file) ==
    LET l == load_conversation_history(<<>>, file)
        shown == Buffer(l.messages)
    IN  IF ~l.loaded THEN [status |-> 404, messages |-> <<>>]
        ELSE [status |-> 200,
              messages |-> [i \in 1..Len(shown) |->
                               [role |-> RoleOf(shown[i]),
                                content |-> shown[i].content]]]

\* what ConversationService.get_conversation_messages returns for a transcript file
get_conversation_messages(file) ==
    LET l == load_conversation_history(<<>>, file)
    IN  IF ~l.loaded THEN [status |-> 404, messages |-> <<>>]
        ELSE [status |-> 200,
              messages |-> [i \in 1..Len(l.messages) |->
                               [role |-> RoleOf(l.messages[i]),
                                content |-> l.messages[i].content]]]

\* GET /messages: reads only
FetchMessages(id) ==
    LET got == get_conversation_messages(history[id])
    IN  /\ last' = [Rec("fetch", id, got.status, "-") EXCEPT !.messages = got.messages]
        /\ UNCHANGED <<memory_cache, history, mtime, cfgdir, config, clock, exch, lost>>

\* ConversationService.save_conversation_config: input holds the fields the
\* caller set; the assignment to cfg.temperature marks temperature as set
save_conversation_config(id, input, w) ==
    LET temperature == _clamp_temperature(
                          IF "temperature" \in DOMAIN input THEN input["temperature"]
                          ELSE NoTemperature)
        existing_data == IF config[id].st = "ok" THEN config[id].data ELSE EmptyDict
        new_data == ("temperature" :> temperature) @@ ("conversation_id" :> id) @@ input
        merged_data == new_data @@ existing_data
    IN  /\ cfgdir' = Upd(cfgdir, id, TRUE)
        /\ config' = Upd(config, id,
                         IF w = "ok" THEN [st |-> "ok", data |-> merged_data]
                         ELSE IF w = "truncated" THEN [st |-> "corrupt", data |-> EmptyDict]
                         ELSE config[id])
        /\ last' = [Rec("save_config", id, IF w = "ok" THEN 200 ELSE 500, w)
                        EXCEPT !.input = input]
        /\ UNCHANGED <<memory_cache, history, mtime, clock, exch, lost>>

\* mutant: only the history file counts as the conversation
delete_conversation_history_only(id) ==
    IF history[id].st = "absent" THEN
        /\ last' = Rec("delete", id, 404, "not found")
        /\ UNCHANGED <<memory_cache, history, mtime, cfgdir, config, clock, exch, lost>>
    ELSE
        /\ cfgdir' = Upd(cfgdir, id, FALSE)
        /\ config' = Upd(config, id, NoFile)
        /\ history' = Upd(history, id, NoHistory)
        /\ mtime' = Upd(mtime, id, 0)
        /\ memory_cache' = Upd(memory_cache, id, NoMemory)
        /\ exch' = Upd(exch, id, 0)
        /\ lost' = Upd(lost, id, FALSE)
        /\ last' = Rec("delete", id, 200, IF cfgdir[id] THEN "both" ELSE "history only")
        /\ UNCHANGED clock

\* mutant: the files are removed and the cached window stays
delete_conversation_no_evict(id) ==
    IF ~(cfgdir[id] \/ history[id].st # "absent") THEN
        /\ last' = Rec("delete", id, 404, "not found")
        /\ UNCHANGED <<memory_cache, history, mtime, cfgdir, config, clock, exch, lost>>
    ELSE
        /\ cfgdir' = Upd(cfgdir, id, FALSE)
        /\ config' = Upd(config, id, NoFile)
        /\ history' = Upd(history, id, NoHistory)
        /\ mtime' = Upd(mtime, id, 0)
        /\ exch' = Upd(exch, id, 0)
        /\ lost' = Upd(lost, id, FALSE)
        /\ last' = Rec("delete", id, 200,
                       IF cfgdir[id] /\ history[id].st # "absent" THEN "both"
                       ELSE IF cfgdir[id] THEN "config only" ELSE "history only")
        /\ UNCHANGED <<memory_cache, clock>>

\* ConversationService.delete_conversation
delete_conversation(id) ==
    LET had_dir == cfgdir[id]
        had_file == history[id].st # "absent"
        deleted_something == had_dir \/ had_file
    IN  IF ~deleted_something THEN
            /\ last' = Rec("delete", id, 404, "not found")
            /\ UNCHANGED <<memory_cache, history, mtime, cfgdir, config, clock, exch, lost>>
        ELSE
            /\ cfgdir' = Upd(cfgdir, id, FALSE)
            /\ config' = Upd(config, id, NoFile)
            /\ history' = Upd(history, id, NoHistory)
            /\ mtime' = Upd(mtime, id, 0)
            /\ memory_cache' = Upd(memory_cache, id, NoMemory)
            /\ exch' = Upd(exch, id, 0)
            /\ lost' = Upd(lost, id, FALSE)
            /\ last' = Rec("delete", id, 200,
                           IF had_dir /\ had_file THEN "both"
                           ELSE IF had_dir THEN "config only" ELSE "history only")
            /\ UNCHANGED clock

\* a new process with the environment key: memory_cache and models_cache are
\* as the module creates them, the coroutines of the old process are gone
StartProcess(key) ==
    /\ memory_cache' = [i \in CacheKeys |-> NoMemory]
    /\ tasks' = [t \in TaskIds |-> IdleTask]
    /\ models_cache' = NoCatalog
    /\ openrouter_api_key' = key
    /\ last' = Rec("restart", "-", 0, "-")
    /\ UNCHANGED <<history, mtime, cfgdir, config, clock, exch, lost, app_settings,
                   ascii_history, ascii_cfgdir, ascii_config>>

\* a new process in the same environment
Restart == StartProcess(openrouter_api_key)

\* a new process, the key set or empty
RestartEnv == \E key \in {ApiKey, NoApiKey} : StartProcess(key)

\* the event loop accepts a chat request: its coroutine is created and has not
\* run yet
accept_chat(t, id) ==
    /\ Free(t)
    /\ tasks' = [tasks EXCEPT ![t] =
                    [IdleTask EXCEPT !.pc = "accepted", !.op = "chat", !.id = id,
                                     !.first = ~memory_cache[id].present]]
    /\ last' = Rec("accept", id, 0, "-")
    /\ UNCHANGED <<memory_cache, history, mtime, cfgdir, config, clock, exch, lost,
                   models_cache, app_settings, openrouter_api_key,
                   ascii_history, ascii_cfgdir, ascii_config>>

\* the event loop runs the coroutine of an accepted chat: handle_chat has no
\* await and runs to its return
run_chat(t, completion) ==
    /\ tasks[t].pc = "accepted" /\ tasks[t].op = "chat"
    /\ handle_chat(tasks[t].id, TaskRequest(t), completion, "ok", "ok")
    /\ tasks' = [tasks EXCEPT ![t].pc = "done"]
    /\ UNCHANGED <<models_cache, app_settings, openrouter_api_key,
                   ascii_history, ascii_cfgdir, ascii_config>>

\* mutant: no check of the history file
generate_conversation_title_unchecked(t, id) ==
    /\ Free(t)
    /\ IF openrouter_api_key = NoApiKey THEN
            /\ last' = Rec("title", id, 500,
                           "API key for title generation is not configured.")
            /\ UNCHANGED tasks
        ELSE
            /\ tasks' = [tasks EXCEPT ![t] =
                            [IdleTask EXCEPT !.pc = "awaiting", !.op = "title",
                                             !.id = id]]
            /\ last' = Rec("title_start", id, 0, "awaiting")
    /\ UNCHANGED <<memory_cache, history, mtime, cfgdir, config, clock, exch, lost,
                   models_cache, app_settings, openrouter_api_key,
                   ascii_history, ascii_cfgdir, ascii_config>>

\* ConversationService.generate_conversation_title up to the await of
\* llm.ainvoke in generate_chat_title
generate_conversation_title(t, id) ==
    /\ Free(t)
    /\ IF history[id].st = "absent" THEN
            /\ last' = [Rec("title", id, 200, "History not found for title generation.")
                            EXCEPT !.title = FallbackTitle(id)]
            /\ UNCHANGED tasks
        ELSE IF openrouter_api_key = NoApiKey THEN
            /\ last' = Rec("title", id, 500,
                           "API key for title generation is not configured.")
            /\ UNCHANGED tasks
        ELSE
            /\ tasks' = [tasks EXCEPT ![t] =
                            [IdleTask EXCEPT !.pc = "awaiting", !.op = "title",
                                             !.id = id]]
            /\ last' = Rec("title_start", id, 0, "awaiting")
    /\ UNCHANGED <<memory_cache, history, mtime, cfgdir, config, clock, exch, lost,
                   models_cache, app_settings, openrouter_api_key,
                   ascii_history, ascii_cfgdir, ascii_config>>

\* generate_conversation_title from the return of the await on: response is
\* what llm.ainvoke did, w what the write of the config file does
generate_conversation_title_resume(t, response, w) ==
    LET id == tasks[t].id
        new_title == Strip(NewTitle(id, generate_chat_title(id, response)))
        config_data == ("title" :> new_title) @@ ("last_title_update" :> clock)
                       @@ TitleConfigData(id, config[id])
    IN  /\ tasks[t].pc = "awaiting" /\ tasks[t].op = "title"
        /\ cfgdir' = Upd(cfgdir, id, TRUE)
        /\ config' = Upd(config, id,
                         IF w = "ok" THEN [st |-> "ok", data |-> config_data]
                         ELSE IF w = "truncated" THEN [st |-> "corrupt", data |-> EmptyDict]
                         ELSE config[id])
        /\ tasks' = [tasks EXCEPT ![t] = IdleTask]
        /\ last' = [Rec("title", id, 200,
                        IF w = "ok" THEN "-" ELSE "New title generated but failed to save")
                        EXCEPT !.title = new_title, !.resumed = TRUE, !.invoked = TRUE,
                               !.completion = IF response.ok THEN "returned" ELSE "raised",
                               !.raw = response.text, !.csave = w,
                               !.overlapped = tasks[t].overlapped]
        /\ UNCHANGED <<memory_cache, history, mtime, clock, exch, lost,
                       models_cache, app_settings, openrouter_api_key,
                   ascii_history, ascii_cfgdir, ascii_config>>

\* the event loop's one thread is not inside the synchronous chain.invoke of a
\* chat: coroutines are created, run and resumed only then
LoopFree == \A t \in TaskIds : tasks[t].pc # "invoking"

\* the event loop runs the coroutine of an accepted chat up to chain.invoke:
\* to its return when handle_chat raises before the call; else the thread
\* enters the call, which does not yield, and stays in it
chat_call(t) ==
    LET id == tasks[t].id
        req == TaskRequest(t)
        r == ResolveConfig(req, config[id])
        um == LastUserMessage(req.messages)
    IN  /\ tasks[t].pc = "accepted" /\ tasks[t].op = "chat"
        /\ IF ~r.ok \/ ~um.ok THEN
                /\ handle_chat(id, req, CompletionError, "ok", "ok")
                /\ tasks' = [tasks EXCEPT ![t].pc = "done"]
            ELSE
                /\ memory_cache' = GetOrCreateMemory(memory_cache, history[id], id)
                /\ tasks' = [tasks EXCEPT ![t].pc = "invoking"]
                /\ last' = Rec("chat_call", id, 0, "invoking")
                /\ UNCHANGED <<history, mtime, cfgdir, config, clock, exch, lost>>
        /\ UNCHANGED <<models_cache, app_settings, openrouter_api_key,
                   ascii_history, ascii_cfgdir, ascii_config>>

\* chain.invoke returns or raises, and handle_chat runs to its return
chat_return(t, completion) ==
    /\ tasks[t].pc = "invoking" /\ tasks[t].op = "chat"
    /\ handle_chat(tasks[t].id, TaskRequest(t), completion, "ok", "ok")
    /\ tasks' = [tasks EXCEPT ![t].pc = "done"]
    /\ UNCHANGED <<models_cache, app_settings, openrouter_api_key,
                   ascii_history, ascii_cfgdir, ascii_config>>

\* the message lists of the round-trip specification: human and ai turns in
\* any order
TurnSet == { HumanMessage(U1), AIMessage(R2) }
RECURSIVE TurnLists(_)
TurnLists(n) ==
    IF n = 0 THEN {<<>>}
    ELSE LET shorter == TurnLists(n - 1)
         IN  shorter \cup { Append(T, m) : T \in { S \in shorter : Len(S) = n - 1 },
                                            m \in TurnSet }

\* utils.save_conversation_history(memory, id) on a memory that holds T
SaveHistory(id, T, w) ==
    /\ history' = Upd(history, id, save_conversation_history(T, history[id], w).file)
    /\ mtime' = IF w = "unchanged" THEN mtime ELSE Upd(mtime, id, clock)
    /\ last' = [Rec("save_history", id, 0, w) EXCEPT !.hsave = w,
                    !.messages = T]
    /\ UNCHANGED <<memory_cache, cfgdir, config, clock, exch, lost, env>>

\* utils.load_conversation_history(memory, id) on a new memory: outcome is
\* the function's result, messages the memory afterwards
LoadHistory(id) ==
    LET l == load_conversation_history(<<>>, history[id])
    IN  /\ last' = [Rec("load_history", id, 0, IF l.loaded THEN "True" ELSE "False")
                        EXCEPT !.messages = l.messages]
        /\ UNCHANGED <<memory_cache, history, mtime, cfgdir, config, clock, exch, lost, env>>

\* mutant: the new conversation gets its config directory at once
create_conversation_materialized(new_id) ==
    /\ cfgdir' = Upd(cfgdir, new_id, TRUE)
    /\ last' = Rec("create", new_id, 200, "-")
    /\ UNCHANGED <<memory_cache, history, mtime, config, clock, exch, lost>>

\* ConversationService.create_conversation: new_id is what
\* generate_new_conversation_id, str(uuid.uuid4()), returns
create_conversation(new_id) ==
    /\ last' = Rec("create", new_id, 200, "-")
    /\ UNCHANGED <<memory_cache, history, mtime, cfgdir, config, clock, exch, lost>>

\* mutant: the defaults returned for a conversation without a config file are
\* written to it
get_conversation_config_saving(id) ==
    LET l == load_conversation_config(config[id])
        data == ("conversation_id" :> id) @@ l.cfg
    IN  /\ last' = IF l.ok
                   THEN [Rec("fetch_config", id, 200, "-") EXCEPT !.data = data]
                   ELSE Rec("fetch_config", id, 500, "Failed to load configuration")
        /\ cfgdir' = IF config[id].st = "absent" THEN Upd(cfgdir, id, TRUE) ELSE cfgdir
        /\ config' = IF config[id].st = "absent"
                     THEN Upd(config, id, [st |-> "ok", data |-> data]) ELSE config
        /\ UNCHANGED <<memory_cache, history, mtime, clock, exch, lost>>

\* ConversationService.get_conversation_config
get_conversation_config(id) ==
    LET l == load_conversation_config(config[id])
        data == ("conversation_id" :> id) @@ l.cfg
    IN  /\ last' = IF l.ok
                   THEN [Rec("fetch_config", id, 200, "-") EXCEPT !.data = data]
                   ELSE Rec("fetch_config", id, 500, "Failed to load configuration")
        /\ UNCHANGED <<memory_cache, history, mtime, cfgdir, config, clock, exch, lost>>

(* Listing: names are sequences of segments, ".json" being one segment *)

JsonExt == ".json"
\* the text of an id
IdName(id) == IF id = "a.json" THEN <<"a", JsonExt>> ELSE <<id>>
\* f"{conversation_id}.json"
FileName(id) == IdName(id) \o <<JsonExt>>
\* the conversation whose transcript a file of the history directory is
FileOwner(f_name) == CHOOSE i \in StoreIds : FileName(i) = f_name
\* f.endswith(".json")
EndsWithJson(f_name) == f_name # <<>> /\ f_name[Len(f_name)] = JsonExt
\* f_name.replace(".json", ""): every occurrence is removed
Stem(f_name) == SelectSeq(f_name, LAMBDA x : x # JsonExt)
\* uuid.UUID(convo_id) does not raise
IsUUID(convo_id) == Len(convo_id) = 1 /\ convo_id[1] \in Conversations

\* no "last_message_time" key in conversation_info
NoTime == -1

\* list_conversations, the body of the loop for a file that passes the UUID
\* test; f_name (history) is the file the entry was made for
ConversationInfo(f_name) ==
    LET convo_id == Stem(f_name)[1]
        file == config[convo_id]
        stored == file.st = "ok" /\ "last_message_time" \in DOMAIN file.data
    IN  [id |-> convo_id,
         name |-> Prefix(IdText(convo_id), 8),
         title |-> IF file.st = "ok" /\ "title" \in DOMAIN file.data
                   THEN file.data["title"] ELSE <<>>,
         last_message_time |->
             IF stored THEN file.data["last_message_time"]
             ELSE IF history[FileOwner(f_name)].st # "absent"
                  THEN mtime[FileOwner(f_name)]
                  ELSE NoTime,
         f_name |-> f_name]

\* key=lambda x: x.get("last_message_time", 0)
SortKey(x) == IF x.last_message_time = NoTime THEN 0 ELSE x.last_message_time

\* mutant: the list is returned in the order of os.listdir
SortNewestFirst_unsorted(conversations) == conversations

\* conversations.sort(key=..., reverse=True): stable, equal keys keep the
\* order they had
RECURSIVE SortNewestFirst(_)
SortNewestFirst(conversations) ==
    IF conversations = <<>> THEN <<>>
    ELSE LET n == Len(conversations)
             x == conversations[n]
             sorted == SortNewestFirst(SubSeq(conversations, 1, n - 1))
             before == Cardinality({i \in 1..Len(sorted) : SortKey(sorted[i]) >= SortKey(x)})
         IN  SubSeq(sorted, 1, before) \o <<x>> \o SubSeq(sorted, before + 1, Len(sorted))

\* utils.list_conversations: listdir is what os.listdir returns, in its order
list_conversations(listdir) ==
    LET conversation_files == SelectSeq(listdir, EndsWithJson)
        valid == SelectSeq(conversation_files, LAMBDA f : IsUUID(Stem(f)))
    IN  SortNewestFirst([i \in 1..Len(valid) |-> ConversationInfo(valid[i])])

\* the files of the history directory
HistoryFiles == { FileName(i) : i \in { j \in StoreIds : history[j].st # "absent" } }

\* the orders os.listdir may return them in
ListDirs ==
    { d \in [1..Cardinality(HistoryFiles) -> HistoryFiles] :
        \A i, j \in DOMAIN d : i # j => d[i] # d[j] }

\* ConversationService.list_conversations
ListConversations(listdir) ==
    /\ last' = [Rec("list", "-", 200, "-") EXCEPT !.listing = list_conversations(listdir)]
    /\ UNCHANGED <<memory_cache, history, mtime, cfgdir, config, clock, exch, lost, env>>

\* POST /api/chat: the validators of ChatRequest, then handle_chat
post_chat(id, req, completion) ==
    IF ~check_model(req.model_name) THEN
        /\ last' = [Rec("chat", id, 422, "Unsupported model") EXCEPT !.req = req]
        /\ UNCHANGED <<memory_cache, history, mtime, cfgdir, config, clock, exch, lost>>
    ELSE IF ~check_temp(req.temperature) THEN
        /\ last' = [Rec("chat", id, 422, "Temperature must be 0.0-2.0") EXCEPT !.req = req]
        /\ UNCHANGED <<memory_cache, history, mtime, cfgdir, config, clock, exch, lost>>
    ELSE handle_chat(id, req, completion, "ok", "ok")

\* POST /api/conversations/config: the validators of ConversationConfig, then
\* save_conversation_config
post_config(id, input) ==
    IF \/ "model_name" \in DOMAIN input /\ ~check_model(input["model_name"])
       \/ "temperature" \in DOMAIN input /\ ~check_temp(input["temperature"])
    THEN
        /\ last' = [Rec("save_config", id, 422, "-") EXCEPT !.input = input]
        /\ UNCHANGED <<memory_cache, history, mtime, cfgdir, config, clock, exch, lost>>
    ELSE save_conversation_config(id, input, "ok")

\* mutant: a fetch that fails is an error, whatever the cache holds
list_models_with_pricing_strict(expired, fetched) ==
    /\ IF models_cache.data /\ ~expired THEN
            /\ last' = [Rec("list_models", "-", 200, "cached")
                            EXCEPT !.expired = expired, !.models = models_cache.models]
            /\ UNCHANGED models_cache
        ELSE IF ~fetched.ok THEN
            /\ last' = [Rec("list_models", "-", 500, "error")
                            EXCEPT !.expired = expired, !.invoked = TRUE]
            /\ UNCHANGED models_cache
        ELSE
            /\ models_cache' = [data |-> TRUE, models |-> fetched.models]
            /\ last' = [Rec("list_models", "-", 200, "fetched")
                            EXCEPT !.expired = expired, !.invoked = TRUE,
                                   !.models = fetched.models]
    /\ UNCHANGED <<memory_cache, history, mtime, cfgdir, config, clock, exch, lost,
                   tasks, app_settings, openrouter_api_key,
                   ascii_history, ascii_cfgdir, ascii_config>>

\* ModelService.list_models_with_pricing: expired is what the comparison of the
\* timestamps gives, fetched what the request to OpenRouter does.  The request
\* is awaited; the handler holds no state across it and reads models_cache
\* again after it, so the step is the part after the await.  invoked
\* (history): the request was sent; models (history): the ids returned.
list_models_with_pricing(expired, fetched) ==
    /\ IF models_cache.data /\ ~expired THEN
            /\ last' = [Rec("list_models", "-", 200, "cached")
                            EXCEPT !.expired = expired, !.models = models_cache.models]
            /\ UNCHANGED models_cache
        ELSE IF ~fetched.ok THEN
            /\ last' = IF models_cache.data
                       THEN [Rec("list_models", "-", 200, "stale")
                                EXCEPT !.expired = expired, !.invoked = TRUE,
                                       !.models = models_cache.models]
                       ELSE [Rec("list_models", "-", 500, "error")
                                EXCEPT !.expired = expired, !.invoked = TRUE]
            /\ UNCHANGED models_cache
        ELSE
            /\ models_cache' = [data |-> TRUE, models |-> fetched.models]
            /\ last' = [Rec("list_models", "-", 200, "fetched")
                            EXCEPT !.expired = expired, !.invoked = TRUE,
                                   !.models = fetched.models]
    /\ UNCHANGED <<memory_cache, history, mtime, cfgdir, config, clock, exch, lost,
                   tasks, app_settings, openrouter_api_key,
                   ascii_history, ascii_cfgdir, ascii_config>>

\* ModelService.refresh_models_cache
refresh_models_cache ==
    /\ models_cache' = NoCatalog
    /\ last' = Rec("refresh_models", "-", 200, "-")
    /\ UNCHANGED <<memory_cache, history, mtime, cfgdir, config, clock, exch, lost,
                   tasks, app_settings, openrouter_api_key,
                   ascii_history, ascii_cfgdir, ascii_config>>

\* SettingsService.update_settings, the write succeeding
update_settings(central_model) ==
    /\ app_settings' = [st |-> "ok", central_model |-> central_model]
    /\ last' = Rec("update_settings", "-", 200, "-")
    /\ UNCHANGED <<memory_cache, history, mtime, cfgdir, config, clock, exch, lost,
                   tasks, models_cache, openrouter_api_key,
                   ascii_history, ascii_cfgdir, ascii_config>>

\* a completion succeeds only with an API key
ChatWith(reqs, comps, writes, max) ==
    \E id \in Ids, req \in reqs, completion \in comps, w \in writes :
        /\ completion.ok => clock < max /\ openrouter_api_key # NoApiKey
        /\ handle_chat(id, req, completion, w[1], w[2])
        /\ UNCHANGED env

Fetch == (\E id \in Ids : FetchMessages(id)) /\ UNCHANGED env

SaveConfigWith(inputs, outcomes) ==
    \E id \in Ids, input \in inputs, w \in outcomes :
        save_conversation_config(id, input, w) /\ UNCHANGED env

Delete == (\E id \in Ids : delete_conversation(id)) /\ UNCHANGED env

\* uuid4 returns any UUID
Create == (\E new_id \in Conversations : create_conversation(new_id)) /\ UNCHANGED env

FetchConfig == (\E id \in Ids : get_conversation_config(id)) /\ UNCHANGED env

\* a new coroutine takes the first free slot
FirstFree(t) == Free(t) /\ \A u \in TaskIds : u < t => ~Free(u)

AcceptChat ==
    \E t \in TaskIds, id \in Ids : FirstFree(t) /\ accept_chat(t, id)

RunChat ==
    \E t \in TaskIds, completion \in {CompletionError, [ok |-> TRUE, text |-> R1]} :
        /\ completion.ok => clock < MaxAsyncClock /\ openrouter_api_key # NoApiKey
        /\ run_chat(t, completion)

\* one title request at a time
TitleStart ==
    \E t \in TaskIds, id \in Ids :
        /\ FirstFree(t)
        /\ \A u \in TaskIds : tasks[u].op = "title" => tasks[u].pc # "awaiting"
        /\ generate_conversation_title(t, id)

SaveConfigAsync ==
    \E id \in Ids :
        /\ save_conversation_config(id, "temperature" :> 9, "ok")
        /\ tasks' = Overlap(tasks)
        /\ UNCHANGED <<models_cache, app_settings, openrouter_api_key,
                   ascii_history, ascii_cfgdir, ascii_config>>


TitleResume ==
    \E t \in TaskIds, response \in TitleResponses, w \in {"ok"} :
        generate_conversation_title_resume(t, response, w)

PostChat ==
    \E id \in Ids, req \in ModelChatRequests,
       completion \in {CompletionError, [ok |-> TRUE, text |-> R1]} :
        /\ completion.ok => clock < MaxModelsClock
        /\ post_chat(id, req, completion)
        /\ UNCHANGED env

PostConfig == \E id \in Ids, input \in ModelConfigInputs : post_config(id, input) /\ UNCHANGED env

ListModels ==
    \E expired \in BOOLEAN, fetched \in Fetches :
        list_models_with_pricing(expired, fetched)

UpdateSettings == \E central_model \in CentralModels : update_settings(central_model)

----------------------------------------------------------------------------
(* The transcript specification: every request, rich transcripts, every    *)
(* outcome of the transcript write.                                        *)

Next ==
    \/ ChatWith(ChatRequests, Completions, TranscriptWrites, MaxClock)
    \/ Fetch
    \/ SaveConfigWith({"temperature" :> 9}, {"ok"})
    \/ Delete
    \/ Restart

Spec == Init /\ [][Next]_vars

(* The configuration specification: every override and every config-save,  *)
(* every outcome of the config writes.                                     *)

NextConfig ==
    \/ ChatWith(ConfigChatRequests, {CompletionError, [ok |-> TRUE, text |-> R1]},
                ConfigWrites, MaxConfigClock)
    \/ Fetch
    \/ SaveConfigWith(ConfigInputs, WriteOutcomes)
    \/ FetchConfig
    \/ Delete
    \/ Restart

SpecConfig == Init /\ [][NextConfig]_vars

(* The long-transcript specification: one chat after another on a fresh    *)
(* conversation, every write succeeding, until the transcript is longer    *)
(* than the window by ExtraExchanges and one more; the process may restart *)
(* in between.                                                             *)

NextLong ==
    \/ ChatWith({PlainRequest, LongRequest}, {CompletionError, [ok |-> TRUE, text |-> R1]},
                {<<"ok", "ok">>}, memory_window_size + ExtraExchanges + 1)
    \/ Fetch
    \/ Restart

SpecLong == Init /\ [][NextLong]_vars

(* The event-loop specification: chat requests are accepted and run as the *)
(* event loop schedules them, title requests are suspended at the          *)
(* completion call while chats and config-saves run, every write           *)
(* succeeding; the process may restart with or without an API key.         *)

NextAsync ==
    \/ AcceptChat
    \/ RunChat
    \/ TitleStart
    \/ TitleResume
    \/ SaveConfigAsync
    \/ RestartEnv

SpecAsync == Init /\ [][NextAsync]_vars

(* The model-catalog specification: requests through the validators, the   *)
(* catalog cache filled and cleared, the central model changed.            *)

NextModels ==
    \/ PostChat
    \/ PostConfig
    \/ ListModels
    \/ refresh_models_cache
    \/ UpdateSettings
    \/ Restart

SpecModels == Init /\ [][NextModels]_vars

(* The blocking specification: the event loop as it runs the coroutines of *)
(* services.py on its one thread: a chat holds the thread while            *)
(* chain.invoke runs, a title gives it up at its await.  Chats and titles  *)
(* are for one conversation, config-saves for that one and for another.    *)

AcceptLoop ==
    \E t \in TaskIds, id \in Ids :
        LoopFree /\ FirstFree(t) /\ accept_chat(t, id)

ChatCall == \E t \in TaskIds : LoopFree /\ chat_call(t)

ChatReturn ==
    \E t \in TaskIds, completion \in {CompletionError, [ok |-> TRUE, text |-> R1]} :
        /\ completion.ok => clock < MaxLoopClock
        /\ chat_return(t, completion)

TitleStartLoop ==
    \E t \in TaskIds, id \in Ids :
        /\ LoopFree /\ FirstFree(t)
        /\ \A u \in TaskIds : tasks[u].op = "title" => tasks[u].pc # "awaiting"
        /\ generate_conversation_title(t, id)

TitleResumeLoop ==
    \E t \in TaskIds :
        LoopFree /\ generate_conversation_title_resume(t, [ok |-> TRUE, text |-> <<"T">>], "ok")

\* a config-save for id is accepted and runs to its return
ServeConfig(id) ==
    /\ LoopFree
    /\ save_conversation_config(id, "temperature" :> 9, "ok")
    /\ tasks' = Overlap(tasks)
    /\ UNCHANGED <<models_cache, app_settings, openrouter_api_key,
                   ascii_history, ascii_cfgdir, ascii_config>>

SaveConfigLoop == \E id \in Conversations : ServeConfig(id)

NextLoop ==
    \/ AcceptLoop
    \/ ChatCall
    \/ ChatReturn
    \/ TitleStartLoop
    \/ TitleResumeLoop
    \/ SaveConfigLoop

SpecLoop == Init /\ [][NextLoop]_vars

(* The store specification: chats, config-saves, titles and deletes on one *)
(* conversation, every outcome of the transcript write; new conversation   *)
(* ids are handed out; the process may restart.  A title may be waiting    *)
(* while the other requests run.                                           *)

NextStore ==
    \/ ChatWith({PlainRequest, PlainRequest2},
                {CompletionError, [ok |-> TRUE, text |-> R1]},
                TranscriptWrites, MaxStoreClock)
    \/ SaveConfigAsync
    \/ TitleStart
    \/ TitleResume
    \/ Delete
    \/ Create
    \/ Restart

SpecStore == Init /\ [][NextStore]_vars

(* The round-trip specification: save_conversation_history and            *)
(* load_conversation_history applied to message lists of up to MaxLen      *)
(* turns, every outcome of the write.                                      *)

NextRoundTrip ==
    \/ \E id \in Ids, T \in TurnLists(MaxLen) \ {<<>>}, w \in WriteOutcomes :
          SaveHistory(id, T, w)
    \/ \E id \in Ids : LoadHistory(id)

SpecRoundTrip == Init /\ [][NextRoundTrip]_vars

(* The listing specification: chats on conversations whose ids are and are *)
(* not names of UUIDs, the write of the config file succeeding or not,     *)
(* deletes, and the list of conversations.                                 *)

NextList ==
    \/ \E id \in StoreIds, cw \in {"ok", "unchanged"} :
          /\ clock < MaxListClock
          /\ handle_chat(id, PlainRequest, [ok |-> TRUE, text |-> R1], "ok", cw)
          /\ UNCHANGED env
    \/ \E id \in StoreIds : delete_conversation(id) /\ UNCHANGED env
    \/ \E listdir \in ListDirs : ListConversations(listdir)

SpecList == Init /\ [][NextList]_vars

----------------------------------------------------------------------------
(* ASCII conversations *)

\* handle_ascii_chat, the stored config: {} when there is no file or
\* json.load raises
AsciiStoredConfig(file) == IF file.st = "ok" THEN file.data ELSE EmptyDict

\* handle_ascii_chat, the defaults put into the stored config and the
\* request's values over them; no error leaves this part
ResolveAsciiConfig(req, file) ==
    LET stored_cfg == AsciiStoredConfig(file)
                      @@ ("model_name" :> get_default_model_from_settings)
                      @@ ("temperature" :> DefaultTemperature)
    IN  [model |-> IF req.model_name # None /\ req.model_name # ""
                   THEN req.model_name ELSE stored_cfg["model_name"],
         temperature |-> _clamp_temperature(
                   IF req.temperature # NoTemperature THEN req.temperature
                   ELSE stored_cfg["temperature"]),
         directive |-> IF req.system_directive # None THEN req.system_directive
                       ELSE IF "system_directive" \in DOMAIN stored_cfg
                            THEN stored_cfg["system_directive"]
                            ELSE None]

\* handle_ascii_chat, the custom directive when truthy, else the fixed text
AsciiSystem(directive) ==
    IF directive # None /\ directive # "" THEN directive ELSE AsciiSystemMessage

\* the config file after _update_ascii_conversation_timestamp
_update_ascii_conversation_timestamp(id, model, directive, temperature, file, now, w) ==
    LET cfg_data == ("id" :> id) @@ ("title" :> AsciiTitle) @@ ("model_name" :> model)
                    @@ ("system_directive" :> directive)
                    @@ ("temperature" :> temperature)
        merged == IF file.st = "ok" THEN file.data @@ cfg_data ELSE cfg_data
        stamped == ("last_message_time" :> now) @@ merged
    IN  IF w = "ok" THEN [st |-> "ok", data |-> stamped]
        ELSE IF w = "truncated" THEN [st |-> "corrupt", data |-> EmptyDict]
        ELSE file

\* ChatService.handle_ascii_chat: completion is what the tool, the agent or
\* the chain does (the request decides which; each returns a text or raises
\* the 500), hw and cw what the writes of the transcript and of the config
\* file do.  The window is memory_cache[ascii_memory_key(id)]; the
\* unescaping of the returned text is for explicit tool calls only.
handle_ascii_chat(id, req, completion, hw, cw) ==
    LET r == ResolveAsciiConfig(req, ascii_config[id])
        key == ascii_memory_key(id)
        cache1 == GetOrCreateMemory(memory_cache, ascii_history[id], key)
        memory == cache1[key].messages
        um == LastUserMessage(req.messages)
        replay == Buffer(memory)
        memory2 == SaveContext(memory, um.content, completion.text)
        saved == save_conversation_history(memory2, ascii_history[id], hw)
        cfg2 == _update_ascii_conversation_timestamp(
                    id, r.model, r.directive, r.temperature, ascii_config[id],
                    clock + 1, cw)
        res == [Rec("ascii_chat", id, 500, "-")
                    EXCEPT !.req = req, !.resolved = TRUE, !.model = r.model,
                           !.temperature = r.temperature,
                           !.system_message = AsciiSystem(r.directive),
                           !.miss = CacheMiss(memory_cache, key)]
        called == [res EXCEPT !.invoked = TRUE, !.replay = replay, !.u = um.content,
                              !.completion = IF completion.ok THEN "returned"
                                             ELSE "raised"]
    IN  /\ IF ~um.ok THEN
                /\ memory_cache' = cache1
                /\ last' = [res EXCEPT !.status = 400,
                                       !.outcome = "No user message provided"]
                /\ UNCHANGED <<ascii_history, ascii_cfgdir, ascii_config, clock>>
            ELSE IF ~completion.ok THEN
                /\ memory_cache' = cache1
                /\ last' = [called EXCEPT !.outcome = "Error processing ASCII chat"]
                /\ UNCHANGED <<ascii_history, ascii_cfgdir, ascii_config, clock>>
            ELSE
                /\ memory_cache' = Upd(cache1, key,
                                       [present |-> TRUE, messages |-> memory2])
                /\ ascii_history' = Upd(ascii_history, id, saved.file)
                /\ ascii_cfgdir' = Upd(ascii_cfgdir, id, TRUE)
                /\ ascii_config' = Upd(ascii_config, id, cfg2)
                /\ clock' = clock + 1
                /\ last' = [called EXCEPT !.status = 200, !.outcome = "ok",
                                          !.raw = completion.text,
                                          !.ret = StripQuotes(completion.text),
                                          !.hsave = hw, !.csave = cw]
        /\ UNCHANGED <<history, mtime, cfgdir, config, exch, lost,
                       tasks, models_cache, app_settings, openrouter_api_key>>

\* ASCIIService.delete_ascii_conversation: memory_cache is not touched
delete_ascii_conversation(id) ==
    /\ ascii_cfgdir' = Upd(ascii_cfgdir, id, FALSE)
    /\ ascii_config' = Upd(ascii_config, id, NoFile)
    /\ ascii_history' = Upd(ascii_history, id, NoHistory)
    /\ last' = Rec("delete_ascii", id, 200,
                   IF ascii_cfgdir[id] /\ ascii_history[id].st # "absent" THEN "both"
                   ELSE IF ascii_cfgdir[id] THEN "config only"
                   ELSE IF ascii_history[id].st # "absent" THEN "history only"
                   ELSE "nothing")
    /\ UNCHANGED <<memory_cache, history, mtime, cfgdir, config, clock, exch, lost,
                   tasks, models_cache, app_settings, openrouter_api_key>>

\* ASCIIService.create_ascii_conversation: elapsed is the time since the
\* clock was last read; overwrote (history): the config file was there
create_ascii_conversation(elapsed) ==
    LET now == clock + elapsed
        conversation_id == AsciiDefaultId(now)
        config_data == ("id" :> conversation_id) @@ ("title" :> AsciiTitle)
                       @@ ("created_time" :> now) @@ ("last_message_time" :> now)
    IN  /\ clock' = now
        /\ ascii_cfgdir' = Upd(ascii_cfgdir, conversation_id, TRUE)
        /\ ascii_config' = Upd(ascii_config, conversation_id,
                               [st |-> "ok", data |-> config_data])
        /\ last' = [Rec("create_ascii", conversation_id, 200, "-")
                        EXCEPT !.overlapped = ascii_config[conversation_id].st # "absent"]
        /\ UNCHANGED <<memory_cache, history, mtime, cfgdir, config, exch, lost,
                       ascii_history,
                       tasks, models_cache, app_settings, openrouter_api_key>>

\* an ASCII chat on the ASCII conversation
AsciiChat ==
    \E id \in AsciiConversations, req \in {PlainRequest, PlainRequest2},
       completion \in {CompletionError, [ok |-> TRUE, text |-> R1]},
       hw \in {"ok", "unchanged"} :
        /\ completion.ok => clock < MaxAsciiClock /\ openrouter_api_key # NoApiKey
        /\ handle_ascii_chat(id, req, completion, hw, "ok")

\* a chat on the conversation of the same id, or of the id "ascii_" and that id
ChatNamed ==
    \E id \in AsciiConversations \cup AsciiNamed, req \in {PlainRequest, PlainRequest2} :
        /\ clock < MaxAsciiClock /\ openrouter_api_key # NoApiKey
        /\ handle_chat(id, req, [ok |-> TRUE, text |-> R2], "ok", "ok")
        /\ UNCHANGED env

DeleteAscii == \E id \in AsciiConversations : delete_ascii_conversation(id)

CreateAscii ==
    \E elapsed \in 0..1 :
        /\ clock + elapsed <= MaxAsciiClock
        /\ create_ascii_conversation(elapsed)

(* The ASCII specification: ASCII chats on one ASCII conversation, chats on *)
(* the conversations whose ids meet its id and its cache key, deletes and   *)
(* creations of ASCII conversations; the process may restart.               *)

NextAscii ==
    \/ AsciiChat
    \/ ChatNamed
    \/ DeleteAscii
    \/ CreateAscii
    \/ Restart

SpecAscii == Init /\ [][NextAscii]_vars

----------------------------------------------------------------------------
(* Properties *)

\* the window a chat on id works on: the cached one, or on a miss the one
\* handle_chat constructs from the transcript file
EffectiveWindow(cache, file) ==
    IF cache.present THEN cache.messages
    ELSE load_conversation_history(<<>>, file).messages

\* the transcript a file holds; none when it is absent or unreadable
Transcript(file) == IF file.st = "ok" THEN file.msgs ELSE <<>>

\* the two file entries of the exchange of the last chat
LastPair(l) == <<[type |-> "human", content |-> l.u], [type |-> "ai", content |-> l.raw]>>

\* C1: whenever a chat has returned a text to its caller, fetch-messages on the
\* same id (evaluated in the state the chat left) returns 200 and a transcript
\* whose last two entries are the submitted user text and the returned text.
C1_ChatThenFetch ==
    (last.op = "chat" /\ last.status = 200) =>
        LET got == get_conversation_messages(history[last.id])
            n == Len(got.messages)
        IN  /\ got.status = 200
            /\ n >= 2
            /\ got.messages[n - 1] = UserTurn(last.u)
            /\ got.messages[n] = AssistantTurn(last.ret)

\* C2: every chat step ends with the new exchange both at the end of the window
\* and at the end of the persisted transcript, or with the window and the
\* transcript file both as they were.
C2_AllOrNothing ==
    [][ last'.op = "chat" =>
          LET id == last'.id
              w0 == EffectiveWindow(memory_cache[id], history[id])
              w1 == EffectiveWindow(memory_cache'[id], history'[id])
              t1 == Transcript(history'[id])
              inMemory == /\ Len(w1) = Len(w0) + 2
                          /\ LastN(w1, 2) = <<HumanMessage(last'.u), AIMessage(last'.raw)>>
              onDisk == /\ history'[id].st = "ok"
                        /\ history'[id] # history[id]
                        /\ LastN(t1, 2) = LastPair(last')
              neither == w1 = w0 /\ history'[id] = history[id]
          IN  (inMemory /\ onDisk) \/ neither ]_vars

\* C3: a chat whose completion call raised returns a 500 and leaves the window
\* (the cached one, or the one a miss hydrates from disk), the transcript file,
\* the config directory and the config file as they were.
C3_CompletionFailureChangesNothing ==
    [][ (last'.op = "chat" /\ last'.completion = "raised") =>
          LET id == last'.id
          IN  /\ last'.status = 500
              /\ memory_cache'[id].present
              /\ memory_cache'[id].messages = EffectiveWindow(memory_cache[id], history[id])
              /\ history' = history
              /\ config' = config
              /\ cfgdir' = cfgdir
              /\ clock' = clock ]_vars

\* C3 witness: a completion failure on a conversation that has turns in its
\* window, a transcript and a config file with a timestamp.
C3_Witness ==
    /\ last.op = "chat" /\ last.completion = "raised" /\ last.status = 500
    /\ Len(memory_cache[last.id].messages) > 0
    /\ history[last.id].st = "ok"
    /\ config[last.id].st = "ok"
    /\ "last_message_time" \in DOMAIN config[last.id].data

\* C4: a chat that succeeds (completion returned, transcript written) on a
\* conversation whose earlier committed turns were all persisted leaves the
\* transcript file holding the entries it held before, unchanged and in order,
\* followed by the new human entry and the new ai entry; also when the window
\* was hydrated from a transcript longer than the window.
C4_TranscriptAppendOnly ==
    [][ (last'.op = "chat" /\ last'.status = 200 /\ last'.hsave = "ok"
         /\ ~lost[last'.id]) =>
          LET id == last'.id
          IN  /\ history'[id].st = "ok"
              /\ history'[id].msgs = Transcript(history[id]) \o LastPair(last') ]_vars

\* C4 witness: a successful chat on a cache miss, the transcript on disk being
\* longer than the window before it.
C4_Witness ==
    /\ last.op = "chat" /\ last.status = 200 /\ last.hsave = "ok" /\ last.miss
    /\ ~lost[last.id]
    /\ Len(Transcript(history[last.id])) > 2 * memory_window_size + 2

\* C8: the chat that follows memory_window_size + ExtraExchanges successful
\* exchanges on a fresh conversation finds all of them in the transcript file
\* and replays exactly the last memory_window_size of them, in order.
C8_WindowBound ==
    [][ (last'.op = "chat" /\ last'.invoked /\ ~lost[last'.id]
         /\ exch[last'.id] = memory_window_size + ExtraExchanges) =>
          LET id == last'.id
              n == 2 * (memory_window_size + ExtraExchanges)
          IN  /\ history[id].st = "ok"
              /\ Len(history[id].msgs) = n
              /\ Len(last'.replay) = 2 * memory_window_size
              /\ last'.replay =
                    Reconstruct(SubSeq(history[id].msgs, 2 * ExtraExchanges + 1, n)) ]_vars

\* C8 witness: the chat after memory_window_size + ExtraExchanges exchanges has
\* called the completion with a full window.
C8_Witness ==
    /\ last.op = "chat" /\ last.invoked /\ ~lost[last.id]
    /\ \/ last.status = 200 /\ exch[last.id] = memory_window_size + ExtraExchanges + 1
       \/ last.status = 500 /\ exch[last.id] = memory_window_size + ExtraExchanges
    /\ Len(last.replay) = 2 * memory_window_size
    /\ Len(Transcript(history[last.id])) >= 2 * (memory_window_size + ExtraExchanges)

\* the value of a string field of a config file, or d when the file, the key
\* or the value is missing
PersistedString(file, key, d) ==
    IF file.st = "ok" /\ key \in DOMAIN file.data /\ file.data[key] \notin {None, ""}
    THEN file.data[key] ELSE d

PersistedTemperature(file, d) ==
    IF file.st = "ok" /\ "temperature" \in DOMAIN file.data
       /\ file.data["temperature"] # NoTemperature
    THEN file.data["temperature"] ELSE d

\* C5: a successful config-save leaves every field the call supplied at the
\* supplied value and every other field of the file at the value it had.
C5_ConfigMerge ==
    [][ (last'.op = "save_config" /\ last'.status = 200) =>
          LET id == last'.id
              input == last'.input
              old == IF config[id].st = "ok" THEN config[id].data ELSE EmptyDict
              new == config'[id].data
          IN  /\ config'[id].st = "ok"
              /\ \A k \in DOMAIN input : k \in DOMAIN new /\ new[k] = input[k]
              /\ \A k \in DOMAIN old \ DOMAIN input :
                     k \in DOMAIN new /\ new[k] = old[k] ]_vars

\* C6: a chat on a conversation whose config file is absent or readable
\* resolves every field (the handler goes on past the merge) to the request
\* value when the request has one, else to the persisted value when the file
\* has one, else to the global default.  (A request with an empty directive is
\* left out.)
C6_ThreeLayerResolution ==
    [][ (last'.op = "chat" /\ config[last'.id].st # "corrupt"
         /\ last'.req.system_directive # "") =>
          LET file == config[last'.id]
              req == last'.req
          IN  /\ last'.resolved
              /\ last'.model =
                    IF req.model_name # None THEN req.model_name
                    ELSE PersistedString(file, "model_name", get_default_model_from_settings)
              /\ last'.temperature =
                    IF req.temperature # NoTemperature THEN req.temperature
                    ELSE PersistedTemperature(file, DefaultTemperature)
              /\ last'.system_message =
                    IF req.system_directive # None THEN req.system_directive
                    ELSE PersistedString(file, "system_directive", SystemPromptFile) ]_vars

\* C7: when the config file holds a value p for temperature, model name or
\* system directive, a chat whose request leaves that field null resolves it to
\* p and a chat whose request supplies r resolves it to r.  (Empty directives
\* are left out.)
C7_Precedence ==
    [][ (last'.op = "chat" /\ config[last'.id].st = "ok") =>
          LET data == config[last'.id].data
              req == last'.req
          IN  /\ ("temperature" \in DOMAIN data /\ data["temperature"] # NoTemperature) =>
                    /\ last'.resolved
                    /\ last'.temperature = IF req.temperature = NoTemperature
                                           THEN data["temperature"] ELSE req.temperature
              /\ ("model_name" \in DOMAIN data /\ data["model_name"] # None) =>
                    /\ last'.resolved
                    /\ last'.model = IF req.model_name = None
                                     THEN data["model_name"] ELSE req.model_name
              /\ ("system_directive" \in DOMAIN data
                  /\ data["system_directive"] \notin {None, ""}
                  /\ req.system_directive # "") =>
                    /\ last'.resolved
                    /\ last'.system_message = IF req.system_directive = None
                                              THEN data["system_directive"]
                                              ELSE req.system_directive ]_vars

\* C9: a delete of an id with neither config directory nor history file returns
\* 404 and changes nothing; any other delete returns 200 and leaves no config
\* directory, no config file, no history file and no cache entry for the id.
C9_Delete ==
    [][ last'.op = "delete" =>
          LET id == last'.id
          IN  IF ~cfgdir[id] /\ history[id].st = "absent"
              THEN /\ last'.status = 404
                   /\ UNCHANGED <<memory_cache, history, cfgdir, config, clock>>
              ELSE /\ last'.status = 200
                   /\ ~cfgdir'[id]
                   /\ config'[id] = NoFile
                   /\ history'[id] = NoHistory
                   /\ memory_cache'[id] = NoMemory ]_vars

\* C9 witness: a delete has succeeded on an id that had a config directory and
\* no history file.
C9_Witness ==
    /\ last.op = "delete" /\ last.status = 200 /\ last.outcome = "config only"
    /\ ~cfgdir[last.id] /\ ~memory_cache[last.id].present

\* C10: the chat that directly follows a successful delete of its id gets past
\* the config merge, resolves every field its request leaves null to the
\* default, replays an empty history, and, when its writes succeed, leaves a
\* transcript of exactly its own exchange.
C10_ChatAfterDelete ==
    (last.op = "chat" /\ last.after_delete # "-") =>
        /\ last.resolved
        /\ last.miss
        /\ last.req.model_name = None => last.model = get_default_model_from_settings
        /\ last.req.temperature = NoTemperature => last.temperature = DefaultTemperature
        /\ last.req.system_directive = None => last.system_message = SystemPromptFile
        /\ last.invoked => last.replay = <<>>
        /\ (last.status = 200 /\ last.hsave = "ok") =>
              history[last.id] = [st |-> "ok", msgs |-> LastPair(last)]

\* C10 witness: a chat has succeeded right after the delete of a conversation
\* that had a transcript and a config.
C10_Witness ==
    /\ last.op = "chat" /\ last.after_delete = "both"
    /\ last.status = 200 /\ last.hsave = "ok"

\* C11: a chat takes the branch that constructs a window and loads the
\* transcript only when its id has no cache entry; on a hit the prompt history
\* is read from the cached window; and a chat that commits leaves the one cached
\* window of its id holding what it held before (on a miss, what was loaded)
\* followed by its own exchange, also when it was accepted together with another
\* first request for the same id.
C11_OneWindow ==
    [][ last'.op = "chat" =>
          LET id == last'.id
          IN  /\ last'.miss => ~memory_cache[id].present
              /\ (last'.invoked /\ memory_cache[id].present) =>
                    last'.replay = Buffer(memory_cache[id].messages)
              /\ last'.status = 200 =>
                    memory_cache'[id].messages =
                        EffectiveWindow(memory_cache[id], history[id])
                        \o <<HumanMessage(last'.u), AIMessage(last'.raw)>> ]_vars

\* C11 witness: two chats for the same id were both accepted while the id had no
\* cache entry; both have run and committed, the second one on a hit, and the
\* one window holds the two exchanges.
C11_Witness ==
    /\ last.op = "chat" /\ last.status = 200 /\ ~last.miss
    /\ \E t, u \in TaskIds :
          /\ t # u
          /\ tasks[t].pc = "done" /\ tasks[t].op = "chat" /\ tasks[t].first
          /\ tasks[u].pc = "done" /\ tasks[u].op = "chat" /\ tasks[u].first
          /\ tasks[t].id = last.id /\ tasks[u].id = last.id
    /\ Len(memory_cache[last.id].messages) = 4

\* C12: a chat whose message list is empty or does not end with a user message
\* returns 400 "No user message provided" and does not call the completion.
C12_NoUserMessageRejected ==
    (last.op = "chat" /\ ~LastUserMessage(last.req.messages).ok) =>
        /\ last.status = 400
        /\ last.outcome = "No user message provided"
        /\ ~last.invoked

\* C13: a chat that is rejected (400) leaves the session cache, the transcript
\* file, the config directory and the config file as they were.
C13_RejectedChatNoSideEffect ==
    [][ (last'.op = "chat" /\ last'.status = 400) =>
          /\ memory_cache' = memory_cache
          /\ history' = history
          /\ cfgdir' = cfgdir
          /\ config' = config ]_vars

\* C14: a chat (its request ending with a user message) on a conversation whose
\* config file is unparseable gets past the config merge with the defaults for
\* the fields its request leaves null, and calls the completion.
C14_CorruptConfigFallsBack ==
    [][ (last'.op = "chat" /\ config[last'.id].st = "corrupt") =>
          /\ last'.resolved
          /\ last'.invoked
          /\ last'.req.model_name = None =>
                last'.model = get_default_model_from_settings
          /\ last'.req.temperature = NoTemperature =>
                last'.temperature = DefaultTemperature ]_vars

\* C15: a chat request whose model name is not in the validity set is rejected
\* with a validation error, and every chat that calls the completion calls it
\* with a model name that is in the validity set.
C15_ModelValidity ==
    last.op = "chat" =>
        /\ (last.req.model_name # None /\ last.req.model_name \notin get_valid_models) =>
              last.status = 422 /\ ~last.invoked
        /\ last.invoked => last.model \in get_valid_models

C17_TitleFallback ==
    [][ (last'.op = "title" /\ history[last'.id].st # "absent") =>
          LET failed == \/ openrouter_api_key = NoApiKey
                        \/ last'.completion = "raised"
                        \/ RemoveQuotes(Strip(last'.raw)) = <<>>
          IN  /\ last'.status = 200
              /\ failed => last'.title = FallbackTitle(last'.id) ]_vars

\* C18: a title request on a conversation with no transcript file returns at
\* once the fallback title with the detail "History not found for title
\* generation.", calls no completion (no coroutine is left waiting) and leaves
\* the config directory and the config file as they were.
C18_TitleWithoutTranscript ==
    [][ (last'.op \in {"title", "title_start"} /\ ~last'.resumed
         /\ history[last'.id].st = "absent") =>
          /\ last'.op = "title"
          /\ last'.status = 200
          /\ last'.title = FallbackTitle(last'.id)
          /\ last'.outcome = "History not found for title generation."
          /\ ~last'.invoked
          /\ tasks' = tasks
          /\ config' = config
          /\ cfgdir' = cfgdir ]_vars

\* C18 witness: a title request has returned the fallback for a conversation
\* that has a config file and no transcript; the file has no title.
C18_Witness ==
    /\ last.op = "title" /\ ~last.resumed /\ last.status = 200
    /\ last.title = FallbackTitle(last.id)
    /\ history[last.id].st = "absent"
    /\ config[last.id].st = "ok"
    /\ "title" \notin DOMAIN config[last.id].data

C20_TimestampMerge ==
    [][ (last'.op = "chat" /\ last'.status = 200 /\ last'.csave = "ok") =>
          LET id == last'.id
              new == config'[id].data
          IN  /\ config'[id].st = "ok"
              /\ new["last_message_time"] = clock'
              /\ config[id].st = "ok" =>
                    \A k \in DOMAIN config[id].data \ {"last_message_time"} :
                        k \in DOMAIN new /\ new[k] = config[id].data[k] ]_vars

\* C20 witness: a chat that overrode the model has succeeded on a conversation
\* whose config file held another model; the file holds that model still, and
\* the time of the chat.
C20_Witness ==
    /\ last.op = "chat" /\ last.status = 200 /\ last.csave = "ok"
    /\ last.req.model_name = Model1
    /\ config[last.id].st = "ok"
    /\ config[last.id].data["model_name"] = Model2
    /\ config[last.id].data["last_message_time"] = clock

\* C21: a chat whose transcript write failed (the file left as it was, or
\* truncated) does not return 200 with a reply.
C21_TranscriptFailureSurfaced ==
    (last.op = "chat" /\ last.hsave \in {"unchanged", "truncated"}) =>
        last.status # 200

\* C22: a chat whose completion returned and whose transcript was written, and
\* whose write of last_message_time failed, returns 200 with the reply (outer
\* quotes stripped) and leaves its exchange at the end of the cached window
\* and at the end of the transcript file.
C22_TimestampFailureNotCritical ==
    [][ (last'.op = "chat" /\ last'.completion = "returned" /\ last'.hsave = "ok"
         /\ last'.csave \in {"unchanged", "truncated"}) =>
          LET id == last'.id
          IN  /\ last'.status = 200
              /\ last'.ret = StripQuotes(last'.raw)
              /\ memory_cache'[id].present
              /\ LastN(memory_cache'[id].messages, 2) =
                    <<HumanMessage(last'.u), AIMessage(last'.raw)>>
              /\ history'[id].st = "ok"
              /\ LastN(history'[id].msgs, 2) = LastPair(last') ]_vars

\* C22 witness: a chat has returned 200 while its write of the config file
\* left the file truncated; the exchange is in the window and in the
\* transcript file.
C22_Witness ==
    /\ last.op = "chat" /\ last.status = 200 /\ last.hsave = "ok"
    /\ last.csave = "truncated"
    /\ config[last.id].st = "corrupt"
    /\ history[last.id].st = "ok"
    /\ LastN(history[last.id].msgs, 2) = LastPair(last)
    /\ LastN(memory_cache[last.id].messages, 2) =
          <<HumanMessage(last.u), AIMessage(last.raw)>>

\* C23: whenever a chat or a title request is waiting on the completion (the
\* chat inside chain.invoke, the title at its await), a config-save for every
\* other conversation can be accepted and run to its return.
C23_NoGlobalLock ==
    \A t \in TaskIds :
        tasks[t].pc \in {"invoking", "awaiting"} =>
            \A b \in Conversations \ {tasks[t].id} : ENABLED ServeConfig(b)

\* C24: loading a transcript file that holds malformed JSON returns False and
\* leaves the window empty; a chat on a cache miss over such a file that gets
\* past the config merge and ends with a user message calls the completion
\* with an empty history, and when the completion returns the chat returns 200
\* and the window holds its exchange alone.
C24_CorruptTranscriptStartsFresh ==
    [][ (last'.op = "chat" /\ ~memory_cache[last'.id].present
         /\ history[last'.id].st = "corrupt") =>
          LET id == last'.id
          IN  /\ load_conversation_history(<<>>, history[id]) =
                    [loaded |-> FALSE, messages |-> <<>>]
              /\ (last'.resolved /\ LastUserMessage(last'.req.messages).ok) =>
                    /\ last'.invoked
                    /\ last'.replay = <<>>
                    /\ last'.completion = "returned" =>
                          /\ last'.status = 200
                          /\ memory_cache'[id].messages =
                                <<HumanMessage(last'.u), AIMessage(last'.raw)>> ]_vars

\* C24 witness: after a restart a chat has found a malformed transcript file,
\* called the completion with an empty history and returned 200 (its own
\* write failed and left the file as it was).
C24_Witness ==
    /\ last.op = "chat" /\ last.miss /\ last.invoked /\ last.status = 200
    /\ last.hsave = "unchanged"
    /\ history[last.id].st = "corrupt"
    /\ last.replay = <<>>
    /\ Len(memory_cache[last.id].messages) = 2

\* a non-empty sequence of entries, human and ai in turn, the first human and
\* the last ai
Alternating(entries) ==
    /\ Len(entries) > 0
    /\ Len(entries) % 2 = 0
    /\ \A i \in 1..Len(entries) :
          entries[i].type = IF i % 2 = 1 THEN "human" ELSE "ai"

\* s is the beginning of t
IsPrefix(s, t) == Len(s) <= Len(t) /\ SubSeq(t, 1, Len(s)) = s

\* C25: after every step, every readable transcript file holds a non-empty
\* sequence of entries that alternate human and ai, starting with human and
\* ending with ai; and as long as the file of a conversation exists and none
\* of the conversation's transcript writes has failed, the entries the file
\* held before the step are still its first entries, unchanged.
C25_TranscriptShape ==
    [][ \A id \in Conversations :
          /\ history'[id].st = "ok" => Alternating(history'[id].msgs)
          /\ (history[id].st = "ok" /\ history'[id].st # "absent" /\ ~lost'[id]) =>
                /\ history'[id].st = "ok"
                /\ IsPrefix(history[id].msgs, history'[id].msgs) ]_vars

\* C25 witness: a second exchange has been appended to the transcript of a
\* conversation that has a generated title and a saved temperature, after a
\* restart.
C25_Witness ==
    /\ last.op = "chat" /\ last.status = 200 /\ last.hsave = "ok" /\ last.miss
    /\ ~lost[last.id]
    /\ Len(Transcript(history[last.id])) = 4
    /\ config[last.id].st = "ok"
    /\ "title" \in DOMAIN config[last.id].data

\* C26: a load that directly follows a successful save of a non-empty list T
\* of human and ai turns returns True and leaves in the memory exactly T: the
\* same length, order, classes and contents.
C26_RoundTrip ==
    [][ (last.op = "save_history" /\ last.hsave = "ok" /\ last'.op = "load_history") =>
          /\ last'.outcome = "True"
          /\ Len(last'.messages) = Len(last.messages)
          /\ last'.messages = last.messages ]_vars

\* C26 witness: a list of MaxLen turns that starts with an ai turn and ends
\* with two human turns has been saved and loaded again.
C26_Witness ==
    /\ last.op = "load_history" /\ last.outcome = "True"
    /\ Len(last.messages) = MaxLen
    /\ last.messages[1] = AIMessage(R2)
    /\ last.messages[MaxLen - 1] = HumanMessage(U1)
    /\ last.messages[MaxLen] = HumanMessage(U1)

\* the time the claim orders an entry by: last_message_time of the config file
\* of its id when the file has one, else the modification time of the history
\* file the entry stands for, else 0 (older than every time)
OrderTime(x) ==
    LET file == config[x.id]
    IN  IF file.st = "ok" /\ "last_message_time" \in DOMAIN file.data
        THEN file.data["last_message_time"]
        ELSE IF history[FileOwner(x.f_name)].st # "absent" THEN mtime[FileOwner(x.f_name)]
        ELSE 0

\* C27: the list that list_conversations returns is in descending order of
\* that time, whatever order os.listdir returns the files in.
C27_ListNewestFirst ==
    [][ last'.op = "list" =>
          LET L == last'.listing
          IN  \A i, j \in 1..Len(L) : i < j => OrderTime(L[i]) >= OrderTime(L[j]) ]_vars

\* C27 witness: a list of two conversations, the first ordered by the
\* last_message_time of its config file, the second, older, by the
\* modification time of its history file (it has no config file).
C27_Witness ==
    /\ last.op = "list" /\ Len(last.listing) = 2
    /\ last.listing[1].id # last.listing[2].id
    /\ config[last.listing[1].id].st = "ok"
    /\ last.listing[1].last_message_time = 2
    /\ config[last.listing[2].id].st = "absent"
    /\ last.listing[2].last_message_time = 1
    /\ mtime[last.listing[2].id] = 1

\* C28: the list holds exactly one entry for every history file that is named
\* by a UUID, and every entry stands for such a file.
C28_ListUUIDFilesOnly ==
    [][ last'.op = "list" =>
          LET L == last'.listing
          IN  /\ \A id \in Conversations :
                    history[id].st # "absent" =>
                        Cardinality({k \in 1..Len(L) : L[k].id = id}) = 1
              /\ \A k \in 1..Len(L) :
                    /\ L[k].id \in Conversations
                    /\ L[k].f_name = FileName(L[k].id) ]_vars

\* id has no transcript file, no config directory and no config file
NoArtifacts(h, d, c, id) == h[id].st = "absent" /\ ~d[id] /\ c[id].st = "absent"

\* C29: create returns the name of a UUID and leaves the transcript files,
\* the config directories and files and the session cache as they were; and
\* the step in which a conversation that has no artifact, no cache entry and
\* no request in flight gets its first artifact is a chat or a config-save on
\* that conversation.
C29_CreateIsLazy ==
    [][ /\ last'.op = "create" =>
              /\ last'.status = 200
              /\ IsUUID(IdName(last'.id))
              /\ UNCHANGED <<memory_cache, history, mtime, cfgdir, config>>
        /\ \A id \in Conversations :
              ( /\ NoArtifacts(history, cfgdir, config, id)
                /\ ~memory_cache[id].present
                /\ \A t \in TaskIds : tasks[t].id # id
                /\ ~NoArtifacts(history', cfgdir', config', id) ) =>
                    last'.op \in {"chat", "save_config"} /\ last'.id = id ]_vars

\* C29 witness: create has returned a new id while another conversation has a
\* transcript, a config file and a cached window; the new one has nothing.
C29_Witness ==
    /\ last.op = "create" /\ last.id = "b"
    /\ NoArtifacts(history, cfgdir, config, "b") /\ ~memory_cache["b"].present
    /\ history["a"].st = "ok" /\ config["a"].st = "ok" /\ memory_cache["a"].present

\* C30: fetch-config changes no config directory and no config file; a
\* fetch-config that directly follows a fetch-config for the same id returns
\* the same status and the same body; and for an id without a config file it
\* returns 200 with the default model, no directive, the default temperature
\* and the id.
C30_FetchConfigIdempotent ==
    [][ last'.op = "fetch_config" =>
          LET id == last'.id
          IN  /\ UNCHANGED <<cfgdir, config>>
              /\ (last.op = "fetch_config" /\ last.id = id) =>
                    last'.status = last.status /\ last'.data = last.data
              /\ config[id].st = "absent" =>
                    /\ last'.status = 200
                    /\ last'.data = ("conversation_id" :> id)
                                    @@ ("model_name" :> get_default_model_from_settings)
                                    @@ ("system_directive" :> None)
                                    @@ ("temperature" :> DefaultTemperature) ]_vars

\* C30 witness: fetch-config has returned the defaults for a conversation
\* that has a transcript and, its config write having failed, no config
\* file.
C30_Witness ==
    /\ last.op = "fetch_config" /\ last.status = 200
    /\ config[last.id].st = "absent"
    /\ history[last.id].st = "ok"
    /\ last.data["temperature"] = DefaultTemperature

\* C31: once the catalog cache holds data (a fetch has succeeded and the cache
\* has not been cleared since), list-models returns 200: within the TTL the
\* cached ids, without a request to the API and leaving the cache as it is;
\* after the TTL, when the request fails, the ids of the cache, which stays as
\* it is; when it succeeds, the fetched ids, which the cache then holds.
C31_NeverFailsOnceFetched ==
    [][ (last'.op = "list_models" /\ models_cache.data) =>
          /\ last'.status = 200
          /\ ~last'.expired =>
                /\ ~last'.invoked
                /\ last'.models = models_cache.models
                /\ models_cache' = models_cache
          /\ (last'.expired /\ last'.outcome # "fetched") =>
                /\ last'.models = models_cache.models
                /\ models_cache' = models_cache
          /\ last'.outcome = "fetched" =>
                /\ last'.expired /\ last'.invoked
                /\ models_cache' = [data |-> TRUE, models |-> last'.models] ]_vars

\* C31 witness: after the TTL the request to the API has failed and
\* list-models has returned the ids fetched earlier.
C31_Witness ==
    /\ last.op = "list_models" /\ last.status = 200 /\ last.outcome = "stale"
    /\ last.expired /\ last.invoked
    /\ models_cache.data
    /\ last.models = models_cache.models
    /\ CatalogModel \in last.models

\* C32: when a delete of id has succeeded while a title request for id waited
\* for its completion, and the title request has then finished with no chat
\* or config-save of id in between, id has no config directory, no config
\* file and no history file.
C32_DeleteDuringTitleLeavesNothing ==
    (last.op = "title" /\ last.resumed /\ last.after_delete # "-") =>
        NoArtifacts(history, cfgdir, config, last.id)

\* C33: the ASCII chat that follows a delete of its ASCII conversation
\* replays no turn to the model, and when its transcript write succeeds the
\* ASCII transcript file holds the two entries of the new exchange only.
C33_AsciiDeleteStartsFresh ==
    [][ ( /\ last.op = "delete_ascii" /\ last.status = 200
          /\ last'.op = "ascii_chat" /\ last'.id = last.id
          /\ last'.status = 200 /\ last'.hsave = "ok" ) =>
          /\ last'.replay = <<>>
          /\ ascii_history'[last'.id].st = "ok"
          /\ ascii_history'[last'.id].msgs = LastPair(last') ]_vars

\* C34: a chat leaves the window and the transcript of every ASCII
\* conversation as they are and replays no turn of them, and an ASCII chat
\* leaves the window and the transcript of every chat conversation as they
\* are: the window of a conversation holds only turns of its own transcript
\* history.  The ids include "ascii_" followed by the id of an ASCII
\* conversation.
C34_WindowsApart ==
    [][ /\ last'.op = "chat" =>
            /\ \A b \in AsciiIds :
                  /\ memory_cache'[ascii_memory_key(b)] = memory_cache[ascii_memory_key(b)]
                  /\ ascii_history'[b] = ascii_history[b]
            /\ (last'.miss /\ last'.invoked) =>
                  last'.replay = Buffer(Reconstruct(Transcript(history[last'.id])))
        /\ last'.op = "ascii_chat" =>
            /\ \A a \in AllIds :
                  /\ memory_cache'[a] = memory_cache[a]
                  /\ history'[a] = history[a]
            /\ (last'.miss /\ last'.invoked) =>
                  last'.replay = Buffer(Reconstruct(Transcript(ascii_history[last'.id]))) ]_vars

\* C38: create_ascii_conversation returns an id whose directory and config
\* file do not exist yet (in the ASCII specification the directories of the
\* ids it returns are never removed, so the id is one no earlier call
\* returned), also when the call before it was made within the same second.
C38_CreateAsciiFresh ==
    [][ last'.op = "create_ascii" =>
          /\ ~ascii_cfgdir[last'.id]
          /\ ascii_config[last'.id].st = "absent"
          /\ ~last'.overlapped ]_vars

\* C35: whenever memory_cache holds a window for id and no transcript write
\* of id has failed since id was fresh (chats run to completion in one step,
\* so none is in progress in any state), the window's message list is the
\* list the transcript file gives, entry for entry, and is empty when there
\* is no transcript file; after every sequence of chats, deletes,
\* config-saves, title requests and restarts.
C35_CacheAgreesWithDisk ==
    \A id \in Ids :
        (memory_cache[id].present /\ ~lost[id]) =>
            /\ history[id].st \in {"ok", "absent"}
            /\ memory_cache[id].messages = Reconstruct(Transcript(history[id]))
            /\ Serialize(memory_cache[id].messages) = Transcript(history[id])
            /\ history[id].st = "absent" => memory_cache[id].messages = <<>>

\* C35 witness: a chat on a cached window has committed and the window holds
\* the two exchanges of the transcript file.
C35_Witness ==
    \E id \in Ids :
        /\ memory_cache[id].present /\ ~lost[id]
        /\ history[id].st = "ok"
        /\ Len(memory_cache[id].messages) = 4
        /\ Serialize(memory_cache[id].messages) = history[id].msgs
        /\ last.op = "chat" /\ last.id = id /\ last.status = 200 /\ ~last.miss

\* C36: after a chat that has committed and written the config file, a chat
\* without overrides resolves to what it would resolve to had that chat
\* carried no overrides (the same messages, the same state before it, where
\* such a chat resolves at all); also when that chat creates the config file.
C36_OverridesDoNotPersist ==
    [][ (last'.op = "chat" /\ last'.status = 200 /\ last'.csave = "ok") =>
          LET id == last'.id
              plain == [last'.req EXCEPT !.model_name = None,
                                         !.temperature = NoTemperature,
                                         !.system_directive = None]
              r0 == ResolveConfig(plain, config[id])
              cfg0 == _update_conversation_timestamp(
                          id, r0.model, r0.directive, r0.temperature,
                          config[id], clock + 1, "ok")
          IN  r0.ok =>
                ResolveConfig(PlainRequest, config'[id]) = ResolveConfig(PlainRequest, cfg0) ]_vars

\* C37: fetch-messages on a conversation with a transcript file returns 200
\* and one message for every entry of the file, in the file's order, with the
\* entry's role and content, however many entries the file holds compared
\* with the window size.
C37_FetchReturnsWholeTranscript ==
    (last.op = "fetch" /\ history[last.id].st = "ok") =>
        /\ last.status = 200
        /\ Len(last.messages) = Len(history[last.id].msgs)
        /\ \A i \in 1..Len(last.messages) :
              /\ last.messages[i].content = history[last.id].msgs[i].content
              /\ last.messages[i].role =
                    (IF history[last.id].msgs[i].type = "human" THEN "user"
                     ELSE "assistant")

\* C37 witness: fetch-messages has returned a transcript that is longer than
\* the window by ExtraExchanges exchanges at least.
C37_Witness ==
    /\ last.op = "fetch" /\ last.status = 200
    /\ history[last.id].st = "ok"
    /\ Len(history[last.id].msgs) >= 2 * (memory_window_size + ExtraExchanges)
    /\ Len(last.messages) = Len(history[last.id].msgs)

====
